---- MODULE Spec2Model ----
(***************************************************************************)
(* Model of the pick'em pool: the pick submission pipeline                 *)
(* (routes/chapter/mod.rs, controllers/chapter/page.rs), the pick store    *)
(* it writes and the book leaderboard (model/book.rs).                     *)
(*                                                                         *)
(* Texts are sequences of one-character strings so that parsing is a       *)
(* computation.  JSON values, responses and request bodies are records of  *)
(* one shape each.                                                         *)
(***************************************************************************)
EXTENDS Integers, Sequences, FiniteSets, TLC

\* ------------------------------------------------------------------------
\* Bounds
\* ------------------------------------------------------------------------
\* most spreads in one spread-group entry of the validator inputs
MaxSpreads == 3
\* most requests started in one behaviour of the pipeline
MaxRequests == 2

\* ------------------------------------------------------------------------
\* Program constants
\* ------------------------------------------------------------------------
I32Max == 2147483647
OK == 200
SEE_OTHER == 303
BAD_REQUEST == 400
UNAUTHORIZED == 401
LOCKED == 423
INTERNAL_SERVER_ERROR == 500

\* ------------------------------------------------------------------------
\* Small helpers
\* ------------------------------------------------------------------------
Range(s) == {s[i] : i \in 1..Len(s)}

None == <<>>
Some(x) == <<x>>

\* ------------------------------------------------------------------------
\* str::parse::<i32>
\* ------------------------------------------------------------------------
Digits == {"0", "1", "2", "3", "4", "5", "6", "7", "8", "9"}

DigitVal(c) ==
    CASE c = "0" -> 0 [] c = "1" -> 1 [] c = "2" -> 2 [] c = "3" -> 3
      [] c = "4" -> 4 [] c = "5" -> 5 [] c = "6" -> 6 [] c = "7" -> 7
      [] c = "8" -> 8 [] c = "9" -> 9

RECURSIVE Magnitude(_)
Magnitude(ds) ==
    IF ds = <<>> THEN 0
    ELSE 10 * Magnitude(SubSeq(ds, 1, Len(ds) - 1)) + DigitVal(ds[Len(ds)])

\* the magnitude m with its sign, when it fits an i32
InRange(m, neg) ==
    IF (neg /\ m - 1 > I32Max) \/ (~neg /\ m > I32Max)
    THEN [ok |-> FALSE, val |-> 0]
    ELSE [ok |-> TRUE, val |-> IF neg THEN 0 - m ELSE m]

\* the digits after the sign: at least one, and ASCII digits only
ParseDigits(ds, neg) ==
    IF ds = <<>> \/ \E i \in 1..Len(ds) : ds[i] \notin Digits
    THEN [ok |-> FALSE, val |-> 0]
    ELSE InRange(Magnitude(ds), neg)

\* an optional sign, then at least one ASCII digit, nothing else, in range
ParseI32(t) ==
    IF t # <<>> /\ t[1] \in {"+", "-"}
    THEN ParseDigits(Tail(t), t[1] = "-")
    ELSE ParseDigits(t, FALSE)

\* ------------------------------------------------------------------------
\* Display of an integer, and Itertools::join
\* ------------------------------------------------------------------------
DigitChar(d) ==
    CASE d = 0 -> "0" [] d = 1 -> "1" [] d = 2 -> "2" [] d = 3 -> "3"
      [] d = 4 -> "4" [] d = 5 -> "5" [] d = 6 -> "6" [] d = 7 -> "7"
      [] d = 8 -> "8" [] d = 9 -> "9"

\* the decimal text of n, as {n} writes it in a format! string
RECURSIVE ToText(_)
ToText(n) ==
    IF n < 0 THEN <<"-">> \o ToText(0 - n)
    ELSE IF n < 10 THEN <<DigitChar(n)>>
    ELSE ToText(n \div 10) \o <<DigitChar(n % 10)>>

\* items.join(","): the texts of the items in their order, a comma between
RECURSIVE JoinComma(_)
JoinComma(items) ==
    IF items = <<>> THEN <<>>
    ELSE IF Len(items) = 1 THEN ToText(items[1])
    ELSE ToText(items[1]) \o <<",">> \o JoinComma(Tail(items))

\* ------------------------------------------------------------------------
\* serde_json::Value
\* ------------------------------------------------------------------------
JStr(s) == [kind |-> "string", str |-> s, num |-> 0, arr |-> <<>>]
JNum(n) == [kind |-> "number", str |-> "", num |-> n, arr |-> <<>>]
JArr(a) == [kind |-> "array", str |-> "", num |-> 0, arr |-> a]

\* ------------------------------------------------------------------------
\* Request payloads: PickSubmission / SubmissionEvent / SpreadGroupSpread
\* ------------------------------------------------------------------------
SpreadGroupSpread(points, sel) == [num_points |-> points, selection |-> sel]

SpreadGroup(id, spreads) ==
    [type |-> "spread-group", event_id |-> id, spreads |-> spreads, user_input |-> ""]

UserInput(id, text) ==
    [type |-> "user-input", event_id |-> id, spreads |-> <<>>, user_input |-> text]

\* the extractor's result: Ok(Json(PickSubmission)) or a JsonRejection
PickSubmission(events) == [json |-> TRUE, events |-> events]
JsonRejection == [json |-> FALSE, events |-> <<>>]

\* ------------------------------------------------------------------------
\* Errors: RespErr as (status code, user message)
\* ------------------------------------------------------------------------
Msg(text, a, b) == [text |-> text, a |-> a, b |-> b]
PlainMsg(text) == Msg(text, <<>>, <<>>)

Err(status, msg) == [ok |-> FALSE, status |-> status, msg |-> msg]

\* the text of RespErr::from(AppError::Sqlx(e)): no user message, so the
\* status text, then the storage error as log line 0
SqlxNotice == PlainMsg("500 Internal Server Error / 0: Database Error: {0}")

\* ------------------------------------------------------------------------
\* axum-ctx: RespErr, the conversions into it, its text and its response
\* ------------------------------------------------------------------------
\* Display of http::StatusCode: the code and its canonical reason
StatusText(code) ==
    CASE code = OK -> "200 OK"
      [] code = SEE_OTHER -> "303 See Other"
      [] code = BAD_REQUEST -> "400 Bad Request"
      [] code = UNAUTHORIZED -> "401 Unauthorized"
      [] code = LOCKED -> "423 Locked"
      [] code = INTERNAL_SERVER_ERROR -> "500 Internal Server Error"
      [] OTHER -> ""

HttpResponse(status, body) == [status |-> status, body |-> body]
NoResponse == HttpResponse(0, "")

\* enum ResponseKind
DefaultMessage == [kind |-> "default", message |-> "", response |-> NoResponse]
CustomMessage(m) == [kind |-> "custom", message |-> m, response |-> NoResponse]
CustomResponse(r) == [kind |-> "response", message |-> "", response |-> r]

RespErr(status_code, log_messages, response_kind) ==
    [status_code |-> status_code, log_messages |-> log_messages,
     response_kind |-> response_kind]

\* RespErr::new
New(status_code) == RespErr(status_code, <<>>, DefaultMessage)

\* RespErr::user_msg
UserMsg(e, message) == [e EXCEPT !.response_kind = CustomMessage(message)]

\* RespErr::log_msg
LogMsg(e, error) == [e EXCEPT !.log_messages = Append(@, error)]

Reverse(s) == [i \in 1..Len(s) |-> s[Len(s) + 1 - i]]

\* "\n  {ind}: {e}" for each message from index ind on
RECURSIVE LogLines(_, _)
LogLines(msgs, ind) ==
    IF msgs = <<>> THEN <<>>
    ELSE <<"\n  ">> \o ToText(ind) \o <<": ", Head(msgs)>>
         \o LogLines(Tail(msgs), ind + 1)

\* what the text starts with, by response kind
DisplayHead(e) ==
    CASE e.response_kind.kind = "default" -> <<StatusText(e.status_code)>>
      [] e.response_kind.kind = "custom" -> <<e.response_kind.message>>
      [] e.response_kind.kind = "response" -> <<>>

\* a text that lists the log messages in the order they were added
DisplayOldestFirst(e) == DisplayHead(e) \o LogLines(e.log_messages, 0)

\* impl Display for RespErr, as the pieces written one after the other
Display(e) == DisplayHead(e) \o LogLines(Reverse(e.log_messages), 0)

\* the response of each kind before the status is set: a text answers 200
BuiltResponse(e) ==
    CASE e.response_kind.kind = "default" -> HttpResponse(OK, StatusText(e.status_code))
      [] e.response_kind.kind = "custom" -> HttpResponse(OK, e.response_kind.message)
      [] e.response_kind.kind = "response" -> e.response_kind.response

\* a conversion that leaves the response's status as it was built
IntoResponseAsBuilt(e) == BuiltResponse(e)

\* impl IntoResponse for RespErr: the response of the kind, its status
\* overwritten with status_code
IntoResponse(e) == [BuiltResponse(e) EXCEPT !.status = e.status_code]

\* Result<T, RespErr>
RespOk(v) == [ok |-> TRUE, val |-> v, err |-> New(0)]
RespFail(e) == [ok |-> FALSE, val |-> 0, err |-> e]

\* what ctx is called on: a Result, an Option or a Response
Source(type, ok, val, err, response) ==
    [type |-> type, ok |-> ok, val |-> val, err |-> err, response |-> response]
NoSource == Source("none", FALSE, 0, "", NoResponse)

\* impl RespErrCtx for Result<T, E>: the error's text is the first log message
CtxResult(src, status_code) ==
    IF src.ok THEN RespOk(src.val)
    ELSE RespFail(LogMsg(New(status_code), src.err))

\* impl RespErrCtx for Option<T>
CtxOption(src, status_code) ==
    IF src.ok THEN RespOk(src.val) ELSE RespFail(New(status_code))

\* impl RespErrCtx for Response
CtxResponse(src, status_code) ==
    RespFail(RespErr(status_code, <<>>, CustomResponse(src.response)))

Ctx(src, status_code) ==
    CASE src.type = "result" -> CtxResult(src, status_code)
      [] src.type = "option" -> CtxOption(src, status_code)
      [] src.type = "response" -> CtxResponse(src, status_code)

\* impl RespErrExt for Result<T, RespErr>
ExtUserMsg(res, message) ==
    IF res.ok THEN res ELSE RespFail(UserMsg(res.err, message))

ExtLogMsg(res, error) ==
    IF res.ok THEN res ELSE RespFail(LogMsg(res.err, error))

\* ------------------------------------------------------------------------
\* validate_picks: one spread-group entry
\* ------------------------------------------------------------------------
\* the request's task ends in a panic: no client error is produced
Panicked == Err(INTERNAL_SERVER_ERROR, PlainMsg("index out of bounds"))

\* point_choices[amount as usize - 1] += 1 on a vector of n counters, then
\* the sub-pick's pair; an index outside 0..n-1 panics
Indexed(spread, n, amount) ==
    IF amount - 1 \notin 0..(n - 1) THEN Panicked
    ELSE [ok |-> TRUE, choice |-> JStr(spread.selection), wager |-> amount]

\* a sub-pick that goes from the parse to the counter with no range check
RangeUnchecked(spread, n, amount) ==
    IF ~amount.ok
    THEN Err(BAD_REQUEST, PlainMsg("Could not parse Spread Group Points"))
    ELSE Indexed(spread, n, amount.val)

\* the i-th sub-pick: parse, then range check against [1, N], then the
\* counter; the range message is "Points must be in range {min}-{max}"
RangeChecked(spread, n, amount) ==
    IF ~amount.ok
    THEN Err(BAD_REQUEST, PlainMsg("Could not parse Spread Group Points"))
    ELSE IF amount.val < 1 \/ amount.val > n
    THEN Err(BAD_REQUEST, Msg("Points must be in range", ToText(1), ToText(n)))
    ELSE Indexed(spread, n, amount.val)

SpreadResult(spread, n) == RangeChecked(spread, n, ParseI32(spread.num_points))

\* a duplicate check that only reports a value used three times
RECURSIVE DoubleUsedFromLax(_, _)
DoubleUsedFromLax(counts, i) ==
    IF i > Len(counts) THEN <<>>
    ELSE (IF counts[i] > 2 THEN <<i>> ELSE <<>>) \o DoubleUsedFromLax(counts, i + 1)

\* point_choices.iter().enumerate().filter_map(count > 1 => i+1)
RECURSIVE DoubleUsedFrom(_, _)
DoubleUsedFrom(counts, i) ==
    IF i > Len(counts) THEN <<>>
    ELSE (IF counts[i] > 1 THEN <<i>> ELSE <<>>) \o DoubleUsedFrom(counts, i + 1)

\* a list of the values used less than twice
RECURSIVE UnusedFromOnce(_, _)
UnusedFromOnce(counts, i) ==
    IF i > Len(counts) THEN <<>>
    ELSE (IF counts[i] < 2 THEN <<i>> ELSE <<>>) \o UnusedFromOnce(counts, i + 1)

\* point_choices.iter().enumerate().filter_map(count < 1 => i+1)
RECURSIVE UnusedFrom(_, _)
UnusedFrom(counts, i) ==
    IF i > Len(counts) THEN <<>>
    ELSE (IF counts[i] < 1 THEN <<i>> ELSE <<>>) \o UnusedFrom(counts, i + 1)

\* a try_fold stops at the first item that failed
FirstFailed(res) ==
    CHOOSE i \in DOMAIN res : ~res[i].ok /\ \A j \in 1..(i - 1) : res[j].ok

\* point_choices[amount - 1] += 1 for every sub-pick
PointChoices(res) ==
    [v \in DOMAIN res |-> Cardinality({i \in DOMAIN res : res[i].wager = v})]

\* the check for a value used twice, then the entry's triple; the message
\* is "Points Used Multiple Times: {double_used} Point(s) available: {unused}"
\* with both lists already comma-joined texts
CheckDoubleUsed(entry, res, double_used, unused) ==
    IF double_used # <<>>
    THEN Err(BAD_REQUEST,
             Msg("Points Used Multiple Times / Point(s) available", double_used, unused))
    ELSE [ok |-> TRUE,
          event_id |-> entry.event_id,
          choice |-> JArr([i \in DOMAIN res |-> res[i].choice]),
          wager |-> JArr([i \in DOMAIN res |-> JNum(res[i].wager)])]

CountPoints(entry, res, point_choices) ==
    CheckDoubleUsed(entry, res, JoinComma(DoubleUsedFrom(point_choices, 1)),
                    JoinComma(UnusedFrom(point_choices, 1)))

\* the inner try_fold over the results of the sub-picks
FoldSpreads(entry, res) ==
    IF \E i \in DOMAIN res : ~res[i].ok
    THEN res[FirstFailed(res)]
    ELSE CountPoints(entry, res, PointChoices(res))

ValidateSpreadGroup(entry) ==
    FoldSpreads(entry,
                [i \in 1..Len(entry.spreads) |->
                    SpreadResult(entry.spreads[i], Len(entry.spreads))])

ValidateUserInput(entry) ==
    [ok |-> TRUE,
     event_id |-> entry.event_id,
     choice |-> JStr(entry.user_input),
     wager |-> JNum(1)]

ValidateEntry(entry) ==
    IF entry.type = "spread-group" THEN ValidateSpreadGroup(entry)
    ELSE ValidateUserInput(entry)

\* ------------------------------------------------------------------------
\* validate_picks: the batch
\* ------------------------------------------------------------------------
Rejected(status, msg) ==
    [ok |-> FALSE, status |-> status, msg |-> msg,
     event_ids |-> <<>>, choices |-> <<>>, wagers |-> <<>>]

Validated(event_ids, choices, wagers) ==
    [ok |-> TRUE, status |-> OK, msg |-> PlainMsg(""),
     event_ids |-> event_ids, choices |-> choices, wagers |-> wagers]

\* a validation that drops the entries that fail and keeps the others
ValidateEntriesSkipping(events) ==
    LET n == Len(events)
        good == SelectSeq(events, LAMBDA e : ValidateEntry(e).ok /\ ParseI32(e.event_id).ok)
        m == Len(good)
    IN  Validated([i \in 1..m |-> ParseI32(good[i].event_id).val],
                  [i \in 1..m |-> ValidateEntry(good[i]).choice],
                  [i \in 1..m |-> ValidateEntry(good[i]).wager])

\* the parse of the event ids of entries that all passed
ParseEventIds(res, ids) ==
    IF \E i \in DOMAIN ids : ~ids[i].ok
    THEN Rejected(BAD_REQUEST, PlainMsg("Could not parse event id"))
    ELSE Validated([i \in DOMAIN res |-> ids[i].val],
                   [i \in DOMAIN res |-> res[i].choice],
                   [i \in DOMAIN res |-> res[i].wager])

RejectedAs(e) == Rejected(e.status, e.msg)

\* the outer try_fold over the results of the entries
FoldEntries(res) ==
    IF \E i \in DOMAIN res : ~res[i].ok
    THEN RejectedAs(res[FirstFailed(res)])
    ELSE ParseEventIds(res, [i \in DOMAIN res |-> ParseI32(res[i].event_id)])

\* the map/try_fold over the entries, then the parse of the event ids:
\* everything validate_picks does before its query
ValidateEntries(events) ==
    FoldEntries([i \in 1..Len(events) |-> ValidateEntry(events[i])])

\* ------------------------------------------------------------------------
\* The catalog: books, chapters, events, subscriptions
\* ------------------------------------------------------------------------
ChapterIds == {1, 2}
\* a chapter id of the path that names no chapter
MissingChapter == 9

ChapterBook == [c \in ChapterIds |-> 1]

\* the events table: id, owner chapter, kind and number of spreads
EventTable ==
    (1 :> [chapter_id |-> 1, kind |-> "spread-group", spreads |-> 2]) @@
    (2 :> [chapter_id |-> 1, kind |-> "user-input", spreads |-> 0]) @@
    (3 :> [chapter_id |-> 2, kind |-> "user-input", spreads |-> 0])

EventIds == DOMAIN EventTable

\* subscriptions.role of each user in the book
BookRoleOf ==
    (1 :> [kind |-> "participant", chapter_ids |-> {}]) @@
    (2 :> [kind |-> "guest", chapter_ids |-> {1}]) @@
    (3 :> [kind |-> "admin", chapter_ids |-> {}]) @@
    (4 :> [kind |-> "owner", chapter_ids |-> {}]) @@
    (5 :> [kind |-> "guest", chapter_ids |-> {2}])

UserIds == DOMAIN BookRoleOf

\* users.username
Username == (1 :> "ann") @@ (2 :> "bob") @@ (3 :> "cat") @@ (4 :> "dan") @@ (5 :> "eve")

\* a query that looks up the first id only
UnknownEventsFirst(event_ids) ==
    {i \in 1..Len(event_ids) : i = 1 /\ event_ids[i] \notin EventIds}

\* SELECT a FROM UNNEST(ids) LEFT JOIN events ON a = events.id
\* WHERE events.id IS NULL
UnknownEvents(event_ids) ==
    {i \in 1..Len(event_ids) : event_ids[i] \notin EventIds}

\* the query of validate_picks and the check of its result; db is the
\* outcome of the query
ValidateLookup(v, db) ==
    IF ~v.ok THEN v
    ELSE IF db # "ok"
    THEN Rejected(INTERNAL_SERVER_ERROR, SqlxNotice)
    ELSE IF UnknownEvents(v.event_ids) # {}
    THEN Rejected(BAD_REQUEST, PlainMsg("Event not found"))
    ELSE v

ValidatePicks(events, db) == ValidateLookup(ValidateEntries(events), db)

\* ------------------------------------------------------------------------
\* The pick store
\* ------------------------------------------------------------------------
PickRow(book, chapter, event, user, choice, wager, points) ==
    [book_id |-> book, chapter_id |-> chapter, event_id |-> event,
     user_id |-> user, choice |-> choice, wager |-> wager, points |-> points]

Key(r) == <<r.book_id, r.chapter_id, r.event_id, r.user_id>>

\* an update that takes the new choice and keeps the old wager
OnConflictChoiceOnly(old, new) == [old EXCEPT !.choice = new.choice]

\* an update that adds the new wager to the old one
OnConflictAccumulate(old, new) ==
    [old EXCEPT
       !.choice = new.choice,
       !.wager = IF old.wager.kind = "array" /\ new.wager.kind = "array"
                 THEN JArr(old.wager.arr \o new.wager.arr)
                 ELSE JNum(old.wager.num + new.wager.num)]

\* a replacement of the whole row by the proposed one
OnConflictReplace(old, new) == new

\* ON CONFLICT ... DO UPDATE SET choice = EXCLUDED.choice, wager = EXCLUDED.wager
OnConflict(old, new) == [old EXCEPT !.choice = new.choice, !.wager = new.wager]

\* the effect of the statement on the table: a proposed row is inserted, or
\* updates the row that has its key
ApplyRows(store, proposed) ==
    LET keys == {Key(proposed[i]) : i \in 1..Len(proposed)}
    IN  {r \in store : Key(r) \notin keys}
        \cup {LET hit == {o \in store : Key(o) = Key(proposed[i])}
              IN  IF hit = {} THEN proposed[i]
                  ELSE OnConflict(CHOOSE o \in hit : TRUE, proposed[i])
              : i \in 1..Len(proposed)}

\* a write that lands the first row of the batch only
UpsertFirstRowOnly(store, book, chapter, user, event_ids, choices, wagers) ==
    IF event_ids = <<>> THEN [ok |-> TRUE, picks |-> store]
    ELSE [ok |-> TRUE,
          picks |-> ApplyRows(store,
                       <<PickRow(book, chapter, event_ids[1], user,
                                 choices[1], wagers[1], None)>>)]

\* INSERT INTO picks ... SELECT ... FROM UNNEST(...) ON CONFLICT ... DO UPDATE
\* as one statement.  A batch proposing one key twice makes the statement
\* fail ("cannot affect row a second time") and nothing is written.
Upsert(store, book, chapter, user, event_ids, choices, wagers) ==
    LET n == Len(event_ids)
        proposed == [i \in 1..n |->
                        PickRow(book, chapter, event_ids[i], user,
                                choices[i], wagers[i], None)]
    IN  IF \E i, j \in 1..n : i # j /\ event_ids[i] = event_ids[j]
        THEN [ok |-> FALSE, picks |-> store]
        ELSE [ok |-> TRUE, picks |-> ApplyRows(store, proposed)]

\* ------------------------------------------------------------------------
\* The book leaderboard query
\* ------------------------------------------------------------------------
\* the book whose leaderboard is shown
BoardBook == ChapterBook[1]

\* a row of the added_points table; id tells equal awards apart
AddedRow(id, book_id, user_id, points) ==
    [id |-> id, book_id |-> book_id, user_id |-> user_id, points |-> Some(points)]

\* SUM(points): NULLs are skipped, the sum of no value is NULL
RECURSIVE SqlSum(_)
SqlSum(rows) ==
    IF rows = {} THEN None
    ELSE LET r == CHOOSE x \in rows : TRUE
             rest == SqlSum(rows \ {r})
         IN  IF r.points = None THEN rest
             ELSE IF rest = None THEN r.points
             ELSE Some(r.points[1] + rest[1])

Coalesce(v, d) == IF v = None THEN d ELSE v[1]

\* the CTEs earned_points and added_points: one sum per user with rows
PointsByUser(rows, book) ==
    LET mine == {r \in rows : r.book_id = book}
    IN  [u \in {r.user_id : r \in mine} |->
            Coalesce(SqlSum({r \in mine : r.user_id = u}), 0)]

\* LEFT JOIN of a user to a CTE: its sum, or NULL when the user has no row
LeftJoin(sums, u) == IF u \in DOMAIN sums THEN Some(sums[u]) ELSE None

\* subscriptions.role ? 'guest'
IsGuestRole(role) == role.kind = "guest"

BookRankingStatsEarnedOnly(user_id, username, earned, extra) ==
    [user_id |-> user_id, username |-> username, earned_points |-> earned,
     added_points |-> extra, total_points |-> earned, rank |-> 0]
BookRankingStats(user_id, username, earned, extra) ==
    [user_id |-> user_id, username |-> username, earned_points |-> earned,
     added_points |-> extra, total_points |-> earned + extra, rank |-> 0]

\* the CTE regular_users: one row per subscriber who is no guest
RegularUsers(store, table, book) ==
    LET earned == PointsByUser(store, book)
        extra == PointsByUser(table, book)
    IN  { BookRankingStats(u, Username[u],
                           Coalesce(LeftJoin(earned, u), 0),
                           Coalesce(LeftJoin(extra, u), 0)) :
            u \in {x \in UserIds : ~IsGuestRole(BookRoleOf[x])} }

\* the CTE guest_users: one row that sums all guests
GuestUsers(store, table, book) ==
    LET earned == PointsByUser(store, book)
        extra == PointsByUser(table, book)
        guests == {x \in UserIds : IsGuestRole(BookRoleOf[x])}
    IN  BookRankingStats(-1, "Guests",
            Coalesce(SqlSum({[id |-> u, points |-> LeftJoin(earned, u)] : u \in guests}), 0),
            Coalesce(SqlSum({[id |-> u, points |-> LeftJoin(extra, u)] : u \in guests}), 0))

CombinedNonNegative(store, table, book) ==
    RegularUsers(store, table, book) \cup
    {g \in {GuestUsers(store, table, book)} : g.total_points >= 0}
\* the CTE combined: the guests' row only when its total is positive
Combined(store, table, book) ==
    RegularUsers(store, table, book) \cup
    {g \in {GuestUsers(store, table, book)} : g.total_points > 0}

\* ORDER BY total_points DESC: every order of the rows it allows
OrderByTotalDesc(rows) ==
    {s \in [1..Cardinality(rows) -> rows] :
        /\ Range(s) = rows
        /\ \A i \in 1..(Cardinality(rows) - 1) :
              s[i].total_points >= s[i + 1].total_points}

RowNumberAt(w, i) == i
\* RANK() over the ordered window w: a row is a peer of the row before it
\* when their totals are equal, and shares its rank; otherwise its rank is
\* its position
RECURSIVE RankAt(_, _)
RankAt(w, i) ==
    IF i = 1 THEN 1
    ELSE IF w[i].total_points = w[i - 1].total_points THEN RankAt(w, i - 1)
    ELSE i

Ranked(w) == {[w[i] EXCEPT !.rank = RankAt(w, i)] : i \in 1..Len(w)}

\* leaderboard: the results the query can return
Leaderboard(store, table, book) ==
    UNION {OrderByTotalDesc(Ranked(w)) :
              w \in OrderByTotalDesc(Combined(store, table, book))}

\* ------------------------------------------------------------------------
\* The chapter leaderboard query
\* ------------------------------------------------------------------------
\* users.username is unique; the names in the order of their text
NameOrder == <<"ann", "bob", "cat", "dan", "eve">>

NameIndex(name) == CHOOSE i \in 1..Len(NameOrder) : NameOrder[i] = name

ChapterUser(user_id, username, total_points) ==
    [user_id |-> user_id, username |-> username, total_points |-> total_points,
     rank |-> 0]

\* SUM(COALESCE(points, 0)); a user without picks joins one row of NULLs
RECURSIVE SumCoalesced(_)
SumCoalesced(rows) ==
    IF rows = {} THEN 0
    ELSE LET r == CHOOSE x \in rows : TRUE
         IN  Coalesce(r.points, 0) + SumCoalesced(rows \ {r})

\* the subquery sub1: the subscribers of the book, a guest only when the
\* chapter is one of its chapter_ids
ChapterSubscribers(book, chapter) ==
    {u \in UserIds :
        /\ book = BoardBook
        /\ IsGuestRole(BookRoleOf[u]) => chapter \in BookRoleOf[u].chapter_ids}

\* the subquery sub3: one row per subscriber with the sum of its points
ChapterTotals(store, book, chapter) ==
    { ChapterUser(u, Username[u],
                  SumCoalesced({r \in store : r.chapter_id = chapter /\ r.user_id = u})) :
        u \in ChapterSubscribers(book, chapter) }

\* ORDER BY total_points DESC, username
TotalDescUsername(a, b) ==
    \/ a.total_points > b.total_points
    \/ /\ a.total_points = b.total_points
       /\ NameIndex(a.username) < NameIndex(b.username)

OrderByTotalDescUsername(rows) ==
    CHOOSE s \in [1..Cardinality(rows) -> rows] :
        /\ Range(s) = rows
        /\ \A i \in 1..(Cardinality(rows) - 1) : TotalDescUsername(s[i], s[i + 1])

\* RANK() over the window ordered by total_points DESC, username: the peers
\* of a row are the rows equal to it in both sort keys
RECURSIVE ChapterRankAt(_, _)
ChapterRankAt(w, i) ==
    IF i = 1 THEN 1
    ELSE IF /\ w[i].total_points = w[i - 1].total_points
            /\ w[i].username = w[i - 1].username
         THEN ChapterRankAt(w, i - 1)
    ELSE i

ChapterRanked(w) == [i \in 1..Len(w) |-> [w[i] EXCEPT !.rank = ChapterRankAt(w, i)]]

GetChapterUsers(store, book, chapter) ==
    ChapterRanked(OrderByTotalDescUsername(ChapterTotals(store, book, chapter)))

\* ------------------------------------------------------------------------
\* The closed chapter page: events, picks and the scoring of the view
\* ------------------------------------------------------------------------
RECURSIVE Ascending(_)
Ascending(ids) ==
    IF ids = {} THEN <<>>
    ELSE LET least == CHOOSE i \in ids : \A j \in ids : i <= j
         IN  <<least>> \o Ascending(ids \ {least})

\* an event with its contents: the answers of its spreads (unset, or one
\* of home, away, push, unpicked), or its acceptable answers
Event(e, cont) ==
    [id |-> e, kind |-> EventTable[e].kind, spreads |-> cont[e].spreads,
     acceptable_answers |-> cont[e].acceptable_answers]

\* get_events: the events of the chapter
GetEvents(cont, chapter) ==
    LET ids == Ascending({e \in EventIds : EventTable[e].chapter_id = chapter})
    IN  [i \in 1..Len(ids) |-> Event(ids[i], cont)]

\* a stored pick as the view gets it: the variant follows the stored choice
ChapterPick(r) ==
    IF r.choice.kind = "array"
    THEN [type |-> "spread-group",
          choice |-> [i \in 1..Len(r.choice.arr) |-> r.choice.arr[i].str],
          wager |-> [i \in 1..Len(r.wager.arr) |-> r.wager.arr[i].num],
          text |-> "", points |-> r.points]
    ELSE [type |-> "user-input", choice |-> <<>>, wager |-> <<>>,
          text |-> r.choice.str, points |-> r.points]

\* get_chapter_picks: the picks of the chapter, by event and user
GetChapterPicks(store, chapter) == {r \in store : r.chapter_id = chapter}

\* user_picks.get(&ChapterPickHash { event_id, user_id })
PickFor(rows, event_id, user_id) ==
    IF \E r \in rows : r.event_id = event_id /\ r.user_id = user_id
    THEN Some(ChapterPick(CHOOSE r \in rows : r.event_id = event_id /\ r.user_id = user_id))
    ELSE None

Min(a, b) == IF a <= b THEN a ELSE b

\* spreads.iter().zip(choice).filter(answer is Some(a) and a == choice).count()
CorrectSpreads(spreads, choice) ==
    Cardinality({i \in 1..Min(Len(spreads), Len(choice)) : spreads[i] = Some(choice[i])})

Count(correct, total) == [correct |-> correct, total |-> total]

EventPointsPickedOnly(event, pick) ==
    IF event.kind = "spread-group" /\ pick # None /\ pick[1].type = "spread-group"
    THEN Count(CorrectSpreads(event.spreads, pick[1].choice), Len(event.spreads))
    ELSE IF event.kind = "user-input" /\ pick # None /\ pick[1].type = "user-input"
    THEN Count(IF /\ event.acceptable_answers # None
                  /\ pick[1].text \in event.acceptable_answers[1]
               THEN 1 ELSE 0,
               1)
    ELSE Count(0, 0)
\* one round of the loop of user_points: the match on event and pick
EventPoints(event, pick) ==
    IF event.kind = "spread-group" /\ pick # None /\ pick[1].type = "spread-group"
    THEN Count(CorrectSpreads(event.spreads, pick[1].choice), Len(event.spreads))
    ELSE IF event.kind = "spread-group" /\ pick = None
    THEN Count(0, Len(event.spreads))
    ELSE IF event.kind = "user-input" /\ pick = None
    THEN Count(0, 1)
    ELSE IF event.kind = "user-input" /\ pick[1].type = "user-input"
    THEN Count(IF /\ event.acceptable_answers # None
                  /\ pick[1].text \in event.acceptable_answers[1]
               THEN 1 ELSE 0,
               1)
    ELSE Count(0, 0)

AddCount(a, b) == Count(a.correct + b.correct, a.total + b.total)

RECURSIVE UserPointsFrom(_, _, _, _)
UserPointsFrom(user, events, rows, i) ==
    IF i > Len(events) THEN Count(0, 0)
    ELSE AddCount(EventPoints(events[i], PickFor(rows, events[i].id, user.user_id)),
                  UserPointsFrom(user, events, rows, i + 1))

\* user_points: the user's correct and total counts over the events
UserPoints(user, events, rows) == UserPointsFrom(user, events, rows, 1)

IsSpreadGroupPick(pick) == pick # None /\ pick[1].type = "spread-group"

\* what makes spread_tile and table_rows panic on a spread-group pick:
\* wager[index] or choice[index] past the end, a choice that names no team
IndexPanics(pick, index) ==
    \/ index > Len(pick.wager)
    \/ index > Len(pick.choice)
    \/ pick.choice[index] \notin {"home", "away"}

AwardedAny(pick, index, answer) ==
    IF IsSpreadGroupPick(pick) THEN pick[1].wager[index] ELSE 0
\* points_awarded += wager[index] when the answer is set and equals the choice
Awarded(pick, index, answer) ==
    IF IsSpreadGroupPick(pick) /\ answer # None /\ answer[1] = pick[1].choice[index]
    THEN pick[1].wager[index]
    ELSE 0

\* points_wagered += wager[index]
Wagered(pick, index) ==
    IF IsSpreadGroupPick(pick) THEN pick[1].wager[index] ELSE 0

RECURSIVE SumAwarded(_, _, _, _, _)
SumAwarded(users, rows, event, index, i) ==
    IF i > Len(users) THEN 0
    ELSE Awarded(PickFor(rows, event.id, users[i].user_id), index, event.spreads[index])
         + SumAwarded(users, rows, event, index, i + 1)

RECURSIVE SumWagered(_, _, _, _, _)
SumWagered(users, rows, event, index, i) ==
    IF i > Len(users) THEN 0
    ELSE Wagered(PickFor(rows, event.id, users[i].user_id), index)
         + SumWagered(users, rows, event, index, i + 1)

Tile(event_id, index, panic, wagered, awarded) ==
    [event_id |-> event_id, index |-> index, panic |-> panic,
     wagered |-> wagered, awarded |-> awarded]

\* spread_tile: the sums over the users, then one line per user
SpreadTile(index, event, users, rows) ==
    IF \E i \in 1..Len(users) :
          /\ IsSpreadGroupPick(PickFor(rows, event.id, users[i].user_id))
          /\ IndexPanics(PickFor(rows, event.id, users[i].user_id)[1], index)
    THEN Tile(event.id, index, TRUE, 0, 0)
    ELSE Tile(event.id, index, FALSE,
              SumWagered(users, rows, event, index, 1),
              SumAwarded(users, rows, event, index, 1))

\* event_tiles: one tile per spread of every spread-group event
EventTiles(events, users, rows) ==
    { SpreadTile(ix[2], events[ix[1]], users, rows) :
        ix \in {x \in (1..Len(events)) \X (1..MaxSpreads) :
                   /\ events[x[1]].kind = "spread-group"
                   /\ x[2] <= Len(events[x[1]].spreads)} }

Cell(user_id, event_id, panic, kind) ==
    [user_id |-> user_id, event_id |-> event_id, panic |-> panic, kind |-> kind]

\* table_rows: the cell of one user and one event
TableCell(user, event, pick) ==
    IF event.kind = "spread-group" /\ IsSpreadGroupPick(pick)
    THEN Cell(user.user_id, event.id,
              \E i \in 1..Len(event.spreads) : IndexPanics(pick[1], i), "pick")
    ELSE IF pick = None
    THEN Cell(user.user_id, event.id, FALSE, "no-pick")
    ELSE IF event.kind = "user-input" /\ pick[1].type = "user-input"
    THEN Cell(user.user_id, event.id, FALSE, "pick")
    ELSE Cell(user.user_id, event.id, FALSE, "error")

TableRows(events, users, rows) ==
    { TableCell(users[x[1]], events[x[2]],
                PickFor(rows, events[x[2]].id, users[x[1]].user_id)) :
        x \in (1..Len(users)) \X (1..Len(events)) }

Page(status, users, scores, tiles, table) ==
    [status |-> status, users |-> users, scores |-> scores, tiles |-> tiles,
     table |-> table]

\* a panic in the view ends the request without a page
Rendered(users, scores, tiles, table) ==
    IF (\E t \in tiles : t.panic) \/ (\E c \in table : c.panic)
    THEN Page("panic", <<>>, <<>>, {}, {})
    ELSE Page("ok", users, scores, tiles, table)

\* closed::m: the leaderboard, the event tiles and the table
ClosedPage(users, events, rows) ==
    Rendered(users,
             [i \in 1..Len(users) |-> UserPoints(users[i], events, rows)],
             EventTiles(events, users, rows),
             TableRows(events, users, rows))

\* closed_book: the queries, then the view
ClosedBook(store, cont, book, chapter) ==
    ClosedPage(GetChapterUsers(store, book, chapter), GetEvents(cont, chapter),
               GetChapterPicks(store, chapter))

\* ------------------------------------------------------------------------
\* State
\* ------------------------------------------------------------------------
VARIABLES
    chapters,    \* chapters table: id -> [is_open, is_visible]
    picks,       \* picks table: a set of rows, unique on Key
    reqs,        \* the POST requests in flight, by connection slot
    started,     \* number of requests started so far
    writer,      \* history: key -> number of the commit that last wrote the row
    log,         \* history: the rows each commit proposed, in commit order
    seen,        \* what the last reader got: its rows, their writers, the commits so far
    batch,       \* validator run: the submitted events
    result,      \* validator run: what validate_picks returned
    added,       \* added_points table: a set of rows
    board,       \* what the last leaderboard query returned
    contents,    \* events table: the answers the admin has entered, by event
    page,        \* the closed chapter page as last rendered
    chain,       \* a ctx(..).user_msg(..).log_msg(..) chain and its response
    html         \* the rows of the book leaderboard as last rendered

vars ==
    <<chapters, picks, reqs, started, writer, log, seen, batch, result, added, board,
      contents, page, chain, html>>

Slots == {"a", "b"}

NoResp == [status |-> 0, msg |-> PlainMsg(""), alert |-> ""]
NoChapter == [chapter_id |-> 0, book_id |-> 0, is_open |-> FALSE, is_visible |-> FALSE]
NotRun == Rejected(0, PlainMsg(""))

\* a request: the handler's locals, and history flags about its write
\* (conflict: it replaced a row; graded: it replaced a row that had points;
\* repeat: the commit before it proposed the same rows; raced: another
\* submission of its user and chapter committed while it was in flight)
Idle ==
    [pc |-> "idle", user_id |-> 0, chapter |-> NoChapter, body |-> JsonRejection,
     v |-> NotRun, resp |-> NoResp, reached |-> {},
     conflict |-> FALSE, graded |-> FALSE, repeat |-> FALSE, raced |-> FALSE]

NoResult == [db |-> "none", v |-> NotRun]

\* no answer entered yet for any event
NoAnswers ==
    [e \in EventIds |->
        [spreads |-> [i \in 1..EventTable[e].spreads |-> None],
         acceptable_answers |-> None]]

NoPage == Page("none", <<>>, <<>>, {}, {})

\* no chain built yet
NoChain ==
    [stage |-> "none", src |-> NoSource, status |-> 0, res |-> RespOk(0),
     calls |-> <<>>, sent |-> NoResponse]

NothingSeen == [user_id |-> 0, chapter_id |-> 0, rows |-> {}, writer |-> <<>>, commits |-> 0]

\* ------------------------------------------------------------------------
\* Middleware of the chapter router, in the order the layers run
\* ------------------------------------------------------------------------
\* book::mw::require_member: the subscription of the user, or a refusal
RequireMember(user) == BookRoleOf[user].kind # "unauthorized"

\* mw::chapter_ext: get_chapter, or a redirect when there is no such row
ChapterExt(c) ==
    IF c \in ChapterIds
    THEN [chapter_id |-> c, book_id |-> ChapterBook[c],
          is_open |-> chapters[c].is_open, is_visible |-> chapters[c].is_visible]
    ELSE NoChapter

\* an access check that lets every guest see a visible chapter
ConfirmUserAccessAnyGuest(role, chapter) ==
    CASE role.kind \in {"owner", "admin"} -> TRUE
      [] role.kind \in {"participant", "guest"} -> chapter.is_visible
      [] OTHER -> FALSE

\* mw::confirm_user_access
ConfirmUserAccess(role, chapter) ==
    CASE role.kind \in {"owner", "admin"} -> TRUE
      [] role.kind = "participant" -> chapter.is_visible
      [] role.kind = "guest" ->
            chapter.is_visible /\ chapter.chapter_id \in role.chapter_ids
      [] OTHER -> FALSE

\* a gate that tests the other flag
ConfirmChapterVisible(chapter) == chapter.is_visible

ConfirmChapterOpen(chapter) == chapter.is_open

\* the response of a middleware layer: a status and a text, no notification
Respond(req, status, msg) ==
    [req EXCEPT !.pc = "done",
                !.resp = [status |-> status, msg |-> msg, alert |-> ""]]

\* a notification that shows its text whatever the status
AlertVerbatim(status, msg) == msg.text

\* AppNotification::into_response: the text the alert script shows; a
\* server error shows a fixed text in place of the notification's own
Alert(status, msg) ==
    IF status \in 200..299 THEN msg.text
    ELSE IF status \in 500..599 THEN "Our Fault! Please Try Again."
    ELSE msg.text

\* the response of submit: an AppNotification, as Ok or as Err
Notify(req, status, msg) ==
    [req EXCEPT !.pc = "done",
                !.resp = [status |-> status, msg |-> msg,
                          alert |-> Alert(status, msg)]]

\* an entry of submit that takes a body it cannot parse for an empty batch
SubmitEntryLenient(req) ==
    LET v == ValidateEntries(req.body.events)
        r == [req EXCEPT !.reached = @ \cup {"submit", "validate"}, !.v = v]
    IN  IF v.ok THEN [r EXCEPT !.pc = "lookup"]
        ELSE Notify(r, v.status, v.msg)

\* submit up to the first await of validate_picks: the Json extractor and
\* the local part of the validation
SubmitEntry(req) ==
    IF ~req.body.json
    THEN Notify([req EXCEPT !.reached = @ \cup {"submit"}],
                 BAD_REQUEST,
                 PlainMsg("Can't Process Picks. Are they all the way filled out?"))
    ELSE LET v == ValidateEntries(req.body.events)
             r == [req EXCEPT !.reached = @ \cup {"submit", "validate"}, !.v = v]
         IN  IF v.ok THEN [r EXCEPT !.pc = "lookup"]
             ELSE Notify(r, v.status, v.msg)

\* the whole chain for a request of user u to the page of chapter c
Chain(u, c, body) ==
    LET req == [Idle EXCEPT !.user_id = u, !.body = body]
        chapter == ChapterExt(c)
        loaded == [req EXCEPT !.chapter = chapter]
    IN  IF ~RequireMember(u)
        THEN Respond(req, UNAUTHORIZED, PlainMsg("redirect /"))
        ELSE IF chapter = NoChapter
        THEN Respond(req, SEE_OTHER, PlainMsg("redirect /"))
        ELSE IF ~ConfirmUserAccess(BookRoleOf[u], chapter)
        THEN Respond(loaded, UNAUTHORIZED, PlainMsg("redirect /"))
        ELSE IF ~ConfirmChapterOpen(chapter)
        THEN Respond(loaded, LOCKED, PlainMsg("This chapter is closed"))
        ELSE SubmitEntry(loaded)

\* get_chapter_home: the page of the open or of the closed chapter
GetChapterHome(req) ==
    Respond([req EXCEPT !.reached = @ \cup {"page"}], OK,
            PlainMsg(IF req.chapter.is_open THEN "open book" ELSE "closed book"))

\* the chain for a GET of user u of the page of chapter c: the layers of the
\* route without the gate that is on the POST handler only
ChainGet(u, c) ==
    LET req == [Idle EXCEPT !.user_id = u]
        chapter == ChapterExt(c)
        loaded == [req EXCEPT !.chapter = chapter]
    IN  IF ~RequireMember(u)
        THEN Respond(req, UNAUTHORIZED, PlainMsg("redirect /"))
        ELSE IF chapter = NoChapter
        THEN Respond(req, SEE_OTHER, PlainMsg("redirect /"))
        ELSE IF ~ConfirmUserAccess(BookRoleOf[u], chapter)
        THEN Respond(loaded, UNAUTHORIZED, PlainMsg("redirect /"))
        ELSE GetChapterHome(loaded)

\* ------------------------------------------------------------------------
\* Actions of the submission pipeline
\* ------------------------------------------------------------------------
\* a POST arrives and runs until its first wait on the events query
Route(s, u, c, body) ==
    /\ reqs[s].pc = "idle"
    /\ started < MaxRequests
    /\ started' = started + 1
    /\ reqs' = [reqs EXCEPT ![s] = Chain(u, c, body)]
    /\ UNCHANGED <<chapters, picks, writer, log, seen, batch, result, added, board,
                 contents, page,
                 chain, html>>

\* a GET of the chapter page arrives and is answered
GetHome(s, u, c) ==
    /\ reqs[s].pc = "idle"
    /\ started < MaxRequests
    /\ started' = started + 1
    /\ reqs' = [reqs EXCEPT ![s] = ChainGet(u, c)]
    /\ UNCHANGED <<chapters, picks, writer, log, seen, batch, result, added, board,
                   contents, page, chain, html>>

\* the unknown-events query of validate_picks answers (or fails)
Lookup(s, db) ==
    /\ reqs[s].pc = "lookup"
    /\ LET v == ValidateLookup(reqs[s].v, db)
           r == [reqs[s] EXCEPT !.reached = @ \cup {"lookup"}, !.v = v]
       IN  reqs' = [reqs EXCEPT ![s] =
                        IF v.ok THEN [r EXCEPT !.pc = "write"]
                        ELSE Notify(r, v.status, v.msg)]
    /\ UNCHANGED <<chapters, picks, started, writer, log, seen, batch, result, added, board,
                 contents, page,
                 chain, html>>

\* the rows a validated request proposes to the store
Proposed(r) ==
    {PickRow(r.chapter.book_id, r.chapter.chapter_id, r.v.event_ids[i], r.user_id,
             r.v.choices[i], r.v.wagers[i], None) : i \in 1..Len(r.v.event_ids)}

\* the INSERT ... ON CONFLICT statement of submit runs (or fails)
Write(s, db) ==
    /\ reqs[s].pc = "write"
    /\ LET r == reqs[s]
           up == Upsert(picks, r.chapter.book_id, r.chapter.chapter_id, r.user_id,
                        r.v.event_ids, r.v.choices, r.v.wagers)
           done == db = "ok" /\ up.ok
           keys == {Key(p) : p \in Proposed(r)}
           rr == [r EXCEPT
                    !.reached = @ \cup {"write"},
                    !.conflict = done /\ \E o \in picks : Key(o) \in keys,
                    !.graded = done /\ \E o \in picks :
                                   Key(o) \in keys /\ o.points # None,
                    !.repeat = /\ done
                               /\ keys # {}
                               /\ log # <<>>
                               /\ log[Len(log)] = Proposed(r)]
       IN  /\ picks' = IF done THEN up.picks ELSE picks
           /\ reqs' = [t \in Slots |->
                         IF t = s
                         THEN IF done THEN Notify(rr, OK, PlainMsg("Picks Saved"))
                              ELSE Notify(rr, INTERNAL_SERVER_ERROR,
                                           SqlxNotice)
                         ELSE IF /\ done
                                 /\ reqs[t].pc \in {"lookup", "write"}
                                 /\ reqs[t].user_id = r.user_id
                                 /\ reqs[t].chapter.chapter_id = r.chapter.chapter_id
                              THEN [reqs[t] EXCEPT !.raced = TRUE]
                              ELSE reqs[t]]
           /\ writer' = IF done
                        THEN [k \in DOMAIN writer \cup keys |->
                                 IF k \in keys THEN Len(log) + 1 ELSE writer[k]]
                        ELSE writer
           /\ log' = IF done THEN Append(log, Proposed(r)) ELSE log
    /\ UNCHANGED <<chapters, started, seen, batch, result, added, board,
                 contents, page,
                 chain, html>>

\* the response has been sent; the connection takes the next request
Retire(s) ==
    /\ reqs[s].pc = "done"
    /\ reqs' = [reqs EXCEPT ![s] = Idle]
    /\ UNCHANGED <<chapters, picks, started, writer, log, seen, batch, result, added, board,
                 contents, page,
                 chain, html>>

\* get_picks(user, chapter): one SELECT of the user's rows of a chapter
Read(u, c) ==
    /\ LET rows == {r \in picks : r.user_id = u /\ r.chapter_id = c}
       IN  /\ seen' = [user_id |-> u, chapter_id |-> c, rows |-> rows,
                       writer |-> [k \in {Key(r) : r \in rows} |-> writer[k]],
                       commits |-> Len(log)]
           /\ seen' # seen
    /\ UNCHANGED <<chapters, picks, reqs, started, writer, log, batch, result, added, board,
                 contents, page,
                 chain, html>>

\* ------------------------------------------------------------------------
\* Actions of the book admin
\* ------------------------------------------------------------------------
\* POST admin/open: the admin opens or closes a chapter
AdminOpen(c, b) ==
    /\ chapters[c].is_open # b
    /\ chapters' = [chapters EXCEPT ![c].is_open = b]
    /\ UNCHANGED <<picks, reqs, started, writer, log, seen, batch, result, added, board,
                 contents, page,
                 chain, html>>

\* POST admin/visible: the admin shows or hides a chapter
AdminVisible(c, b) ==
    /\ chapters[c].is_visible # b
    /\ chapters' = [chapters EXCEPT ![c].is_visible = b]
    /\ UNCHANGED <<picks, reqs, started, writer, log, seen, batch, result, added, board,
                 contents, page,
                 chain, html>>

\* points a grading can award to one pick
GradePoints == {2}

\* grading: the admin's answers set the points of a stored pick
Grade(r, p) ==
    /\ r \in picks
    /\ r.points # Some(p)
    /\ picks' = (picks \ {r}) \cup {[r EXCEPT !.points = Some(p)]}
    /\ UNCHANGED <<chapters, reqs, started, writer, log, seen, batch, result, added, board,
                 contents, page,
                 chain, html>>

\* ------------------------------------------------------------------------
\* Inputs of the pipeline
\* ------------------------------------------------------------------------
Home12 == <<SpreadGroupSpread(<<"1">>, "home"), SpreadGroupSpread(<<"2">>, "away")>>
Away21 == <<SpreadGroupSpread(<<"2">>, "away"), SpreadGroupSpread(<<"1">>, "home")>>

BodyHome == PickSubmission(<<SpreadGroup(<<"1">>, Home12), UserInput(<<"2">>, "x")>>)
BodyAway == PickSubmission(<<SpreadGroup(<<"1">>, Away21), UserInput(<<"2">>, "y")>>)
\* fewer sub-picks than the event has spreads
BodyShort ==
    PickSubmission(<<SpreadGroup(<<"1">>, <<SpreadGroupSpread(<<"1">>, "home")>>)>>)
\* an event of the other chapter
BodyOther == PickSubmission(<<UserInput(<<"3">>, "x")>>)

ValidBodies == {BodyHome, BodyAway, BodyShort, BodyOther}

InvalidBodies ==
    { JsonRejection,
      \* a valid entry, then: unparsable points
      PickSubmission(<<UserInput(<<"2">>, "x"),
                       SpreadGroup(<<"1">>, <<SpreadGroupSpread(<<"x">>, "home"),
                                              SpreadGroupSpread(<<"1">>, "away")>>)>>),
      \* points out of range
      PickSubmission(<<UserInput(<<"2">>, "x"),
                       SpreadGroup(<<"1">>, <<SpreadGroupSpread(<<"3">>, "home"),
                                              SpreadGroupSpread(<<"1">>, "away")>>)>>),
      \* a value used twice
      PickSubmission(<<UserInput(<<"2">>, "x"),
                       SpreadGroup(<<"1">>, <<SpreadGroupSpread(<<"1">>, "home"),
                                              SpreadGroupSpread(<<"1">>, "away")>>)>>),
      \* an event id that is no integer
      PickSubmission(<<UserInput(<<"2">>, "x"), UserInput(<<"x">>, "x")>>),
      \* an event id that names no event
      PickSubmission(<<UserInput(<<"2">>, "x"), UserInput(<<"7">>, "x")>>),
      \* one event twice
      PickSubmission(<<UserInput(<<"2">>, "x"), UserInput(<<"2">>, "y")>>) }

Bodies == ValidBodies \cup InvalidBodies

DbOutcomes == {"ok", "error"}

\* the users who send submissions: a participant and a guest of chapter 1
Submitters == {1, 2}

\* ------------------------------------------------------------------------
\* The pipeline, one request at a time, while the admin sets the gates
\* ------------------------------------------------------------------------
Init ==
    /\ chapters = [c \in ChapterIds |-> [is_open |-> TRUE, is_visible |-> TRUE]]
    /\ picks = {}
    /\ reqs = [s \in Slots |-> Idle]
    /\ started = 0
    /\ writer = <<>>
    /\ log = <<>>
    /\ seen = NothingSeen
    /\ batch = <<>>
    /\ result = NoResult
    /\ added = {}
    /\ board = <<>>
    /\ contents = NoAnswers
    /\ page = NoPage
    /\ chain = NoChain
    /\ html = <<>>

Next ==
    \/ \E u \in Submitters, c \in ChapterIds, body \in Bodies : Route("a", u, c, body)
    \/ \E u \in Submitters : Route("a", u, MissingChapter, BodyHome)
    \/ \E db \in DbOutcomes : Lookup("a", db)
    \/ \E db \in DbOutcomes : Write("a", db)
    \/ Retire("a")
    \/ \E b \in BOOLEAN : AdminOpen(1, b)
    \/ \E b \in BOOLEAN : AdminVisible(1, b)

Spec == Init /\ [][Next]_vars

\* ------------------------------------------------------------------------
\* Submissions to one open chapter racing, with grading and a reader
\* ------------------------------------------------------------------------
RaceBodies == {BodyHome, BodyAway, BodyShort}

\* user 2 has submitted BodyHome to chapter 1 before
EarlierBatch == ValidateEntries(BodyHome.events)

EarlierRows ==
    {PickRow(ChapterBook[1], 1, EarlierBatch.event_ids[i], 2,
             EarlierBatch.choices[i], EarlierBatch.wagers[i], None) :
        i \in 1..Len(EarlierBatch.event_ids)}

InitRace ==
    /\ chapters = [c \in ChapterIds |-> [is_open |-> TRUE, is_visible |-> TRUE]]
    /\ picks = EarlierRows
    /\ reqs = [s \in Slots |-> Idle]
    /\ started = 0
    /\ writer = [k \in {Key(r) : r \in EarlierRows} |-> 1]
    /\ log = <<EarlierRows>>
    /\ seen = NothingSeen
    /\ batch = <<>>
    /\ result = NoResult
    /\ added = {}
    /\ board = <<>>
    /\ contents = NoAnswers
    /\ page = NoPage
    /\ chain = NoChain
    /\ html = <<>>

NextRace ==
    \/ \E s \in Slots, body \in RaceBodies : Route(s, 1, 1, body)
    \/ \E s \in Slots, db \in DbOutcomes : Lookup(s, db)
    \/ \E s \in Slots, db \in DbOutcomes : Write(s, db)
    \/ \E s \in Slots : Retire(s)
    \/ \E r \in {o \in picks : o.event_id = 1}, p \in GradePoints : Grade(r, p)
    \/ Read(1, 1)

SpecRace == InitRace /\ [][NextRace]_vars

\* ------------------------------------------------------------------------
\* validate_picks alone, over bounded inputs
\* ------------------------------------------------------------------------
PointTexts ==
    {<<"0">>, <<"1">>, <<"2">>, <<"3">>, <<"4">>, <<"+", "2">>, <<"0", "1">>,
     <<"-", "1">>, <<"x">>, <<>>}

\* a spread-group entry alone or after a valid entry, its event known,
\* unknown or no integer; the sub-picks are filled in one by one
EmptyForms ==
    { <<SpreadGroup(<<"1">>, <<>>)>>,
      <<UserInput(<<"2">>, "x"), SpreadGroup(<<"1">>, <<>>)>>,
      <<SpreadGroup(<<"7">>, <<>>)>>,
      <<SpreadGroup(<<"x">>, <<>>)>> }

InitValidate ==
    /\ chapters = [c \in ChapterIds |-> [is_open |-> TRUE, is_visible |-> TRUE]]
    /\ picks = {}
    /\ reqs = [s \in Slots |-> Idle]
    /\ started = 0
    /\ writer = <<>>
    /\ log = <<>>
    /\ seen = NothingSeen
    /\ batch \in EmptyForms
    /\ result = NoResult
    /\ added = {}
    /\ board = <<>>
    /\ contents = NoAnswers
    /\ page = NoPage
    /\ chain = NoChain
    /\ html = <<>>

\* the client adds a sub-pick with point text t to the spread-group entry
AddSpread(t) ==
    /\ result.db = "none"
    /\ \E i \in 1..Len(batch) :
          /\ batch[i].type = "spread-group"
          /\ Len(batch[i].spreads) < MaxSpreads
          /\ batch' = [batch EXCEPT ![i].spreads = Append(@, SpreadGroupSpread(t, "home"))]
    /\ UNCHANGED <<chapters, picks, reqs, started, writer, log, seen, result, added, board,
                 contents, page,
                 chain, html>>

\* validate_picks runs on the batch; db is the outcome of its query
Validate(db) ==
    /\ result.db = "none"
    /\ result' = [db |-> db, v |-> ValidatePicks(batch, db)]
    /\ UNCHANGED <<chapters, picks, reqs, started, writer, log, seen, batch, added, board,
                 contents, page,
                 chain, html>>

NextValidate ==
    \/ \E t \in PointTexts : AddSpread(t)
    \/ \E db \in DbOutcomes : Validate(db)

SpecValidate == InitValidate /\ [][NextValidate]_vars

\* ------------------------------------------------------------------------
\* The book's points and its leaderboard
\* ------------------------------------------------------------------------
MaxAdded == 1

BoardPoints == {1}
AwardPoints == {-1, 2}

\* user u's one-entry submission for event 2 has been accepted and written
SavePick(u) ==
    /\ \A r \in picks : Key(r) # <<BoardBook, EventTable[2].chapter_id, 2, u>>
    /\ picks' = Upsert(picks, BoardBook, EventTable[2].chapter_id, u,
                       <<2>>, <<JStr("x")>>, <<JNum(1)>>).picks
    /\ UNCHANGED <<chapters, reqs, started, writer, log, seen, batch, result, added, board,
                 contents, page,
                 chain, html>>

\* the admin awards p extra points to user u
AddPoints(u, p) ==
    /\ Cardinality(added) < MaxAdded
    /\ LET same == {r \in added : r.user_id = u /\ r.points = Some(p)}
       IN  added' = added \cup {AddedRow(Cardinality(same) + 1, BoardBook, u, p)}
    /\ UNCHANGED <<chapters, picks, reqs, started, writer, log, seen, batch, result, board,
                 contents, page,
                 chain, html>>

\* a rank cell that shows the rank of every row
RankCellOfEveryRow(rank, i) == Some(rank.rank)

\* the first cell of the row at index i (from 0) of the rankings: the
\* position, when the row's rank is its position, and otherwise nothing
RankCell(rank, i) == IF rank.rank = i + 1 THEN Some(i + 1) ELSE None

\* one row of the table: rank cell, name, the note of the added points when
\* there are any, and the total
LeaderboardRow(rank, i) ==
    [rank |-> RankCell(rank, i),
     username |-> rank.username,
     added |-> IF rank.added_points > 0 THEN Some(rank.added_points) ELSE None,
     total |-> rank.total_points]

\* the body of the table over rankings.iter().enumerate()
RenderLeaderboard(rankings) ==
    [k \in 1..Len(rankings) |-> LeaderboardRow(rankings[k], k - 1)]

\* the book page asks for the leaderboard and renders it
QueryLeaderboard ==
    /\ \E rankings \in Leaderboard(picks, added, BoardBook) :
          /\ board' = rankings
          /\ html' = RenderLeaderboard(rankings)
    /\ UNCHANGED <<chapters, picks, reqs, started, writer, log, seen, batch, result, added,
                 contents, page,
                 chain>>

InitBoard ==
    /\ chapters = [c \in ChapterIds |-> [is_open |-> TRUE, is_visible |-> TRUE]]
    /\ picks = {}
    /\ reqs = [s \in Slots |-> Idle]
    /\ started = 0
    /\ writer = <<>>
    /\ log = <<>>
    /\ seen = NothingSeen
    /\ batch = <<>>
    /\ result = NoResult
    /\ added = {}
    /\ board = <<>>
    /\ contents = NoAnswers
    /\ page = NoPage
    /\ chain = NoChain
    /\ html = <<>>

\* the tables change until the page is asked for
NextBoard ==
    \/ \E u \in UserIds : board = <<>> /\ SavePick(u)
    \/ \E r \in picks, p \in BoardPoints : board = <<>> /\ r.points = None /\ Grade(r, p)
    \/ \E u \in UserIds, p \in AwardPoints : board = <<>> /\ AddPoints(u, p)
    \/ board = <<>> /\ QueryLeaderboard

SpecBoard == InitBoard /\ [][NextBoard]_vars

\* ------------------------------------------------------------------------
\* A chapter is filled, closed, answered and shown
\* ------------------------------------------------------------------------
\* a side that names no team, and a spread-group entry for a user-input event
BodySide ==
    PickSubmission(<<SpreadGroup(<<"1">>, <<SpreadGroupSpread(<<"1">>, "push"),
                                            SpreadGroupSpread(<<"2">>, "home")>>)>>)
BodyKind ==
    PickSubmission(<<SpreadGroup(<<"2">>, <<SpreadGroupSpread(<<"1">>, "home")>>)>>)

ChapterBodies == {BodyHome, BodyAway, BodyShort, BodySide, BodyKind}

Answers == {"home", "away", "push", "unpicked"}

\* user u's first submission to chapter c is accepted and written
SavePicks(u, c, body) ==
    /\ chapters[c].is_open
    /\ \A r \in picks : ~(r.chapter_id = c /\ r.user_id = u)
    /\ LET v == ValidatePicks(body.events, "ok")
       IN  /\ v.ok
           /\ picks' = Upsert(picks, ChapterBook[c], c, u,
                              v.event_ids, v.choices, v.wagers).picks
    /\ UNCHANGED <<chapters, reqs, started, writer, log, seen, batch, result, added,
                   board, contents, page,
                 chain, html>>

\* the admin enters the answer of spread i of event e
AnswerSpread(e, i, a) ==
    /\ i \in 1..Len(contents[e].spreads)
    /\ contents[e].spreads[i] = None
    /\ contents' = [contents EXCEPT ![e].spreads[i] = Some(a)]
    /\ UNCHANGED <<chapters, picks, reqs, started, writer, log, seen, batch, result,
                   added, board, page,
                 chain, html>>

\* the admin enters the acceptable answers of user-input event e
SetAcceptable(e, answers) ==
    /\ EventTable[e].kind = "user-input"
    /\ contents[e].acceptable_answers = None
    /\ contents' = [contents EXCEPT ![e].acceptable_answers = Some(answers)]
    /\ UNCHANGED <<chapters, picks, reqs, started, writer, log, seen, batch, result,
                   added, board, page,
                 chain, html>>

\* GET of the chapter page when the chapter is closed
GetClosedBook(c) ==
    /\ ~chapters[c].is_open
    /\ page' = ClosedBook(picks, contents, ChapterBook[c], c)
    /\ UNCHANGED <<chapters, picks, reqs, started, writer, log, seen, batch, result,
                   added, board, contents,
                 chain, html>>

InitChapter ==
    /\ chapters = [c \in ChapterIds |-> [is_open |-> TRUE, is_visible |-> TRUE]]
    /\ picks = {}
    /\ reqs = [s \in Slots |-> Idle]
    /\ started = 0
    /\ writer = <<>>
    /\ log = <<>>
    /\ seen = NothingSeen
    /\ batch = <<>>
    /\ result = NoResult
    /\ added = {}
    /\ board = <<>>
    /\ contents = NoAnswers
    /\ page = NoPage
    /\ chain = NoChain
    /\ html = <<>>

\* the chapter whose closed page is asked for: the first one, which holds
\* the spread-group event 1 and the user-input event 2
Shown == CHOOSE c \in ChapterIds : \A d \in ChapterIds : c <= d

\* users 1 and 3 submit while the chapter is open; the admin closes it and
\* enters answers; the page is asked for once
NextChapter ==
    \/ \E u \in {1, 3}, body \in ChapterBodies :
          page = NoPage /\ SavePicks(u, Shown, body)
    \/ page = NoPage /\ AdminOpen(Shown, FALSE)
    \/ \E i \in 1..MaxSpreads, a \in Answers :
          page = NoPage /\ ~chapters[Shown].is_open /\ AnswerSpread(1, i, a)
    \/ page = NoPage /\ ~chapters[Shown].is_open /\ SetAcceptable(2, {"x"})
    \/ \E r \in {o \in picks : o.event_id = 2} :
          page = NoPage /\ ~chapters[Shown].is_open /\ r.points = None /\ Grade(r, 1)
    \/ page = NoPage /\ GetClosedBook(Shown)

SpecChapter == InitChapter /\ [][NextChapter]_vars

\* ------------------------------------------------------------------------
\* A handler builds an error with ctx, user_msg and log_msg and returns it
\* ------------------------------------------------------------------------
\* most user_msg and log_msg calls after one ctx
MaxMsgs == 3

CtxSources ==
    { Source("result", TRUE, 42, "", NoResponse),
      Source("result", FALSE, 0, "Ups!", NoResponse),
      Source("option", TRUE, 42, "", NoResponse),
      Source("option", FALSE, 0, "", NoResponse),
      Source("response", FALSE, 0, "", HttpResponse(SEE_OTHER, "redirect /")) }

CtxStatuses == {BAD_REQUEST, INTERNAL_SERVER_ERROR}
UserTexts == {"Sorry!", "Missing number!"}
LogTexts == {"Bug!", "Bugs everywhere!"}

\* x.ctx(status_code)
CallCtx(src, status_code) ==
    /\ chain.stage = "none"
    /\ chain' = [stage |-> "built", src |-> src, status |-> status_code,
                 res |-> Ctx(src, status_code), calls |-> <<>>, sent |-> NoResponse]
    /\ UNCHANGED <<chapters, picks, reqs, started, writer, log, seen, batch, result,
                   added, board, contents, page, html>>

\* .user_msg(message)
CallUserMsg(message) ==
    /\ chain.stage = "built"
    /\ Len(chain.calls) < MaxMsgs
    /\ chain' = [chain EXCEPT
                   !.res = ExtUserMsg(@, message),
                   !.calls = Append(@, [op |-> "user_msg", text |-> message])]
    /\ UNCHANGED <<chapters, picks, reqs, started, writer, log, seen, batch, result,
                   added, board, contents, page, html>>

\* .log_msg(error)
CallLogMsg(error) ==
    /\ chain.stage = "built"
    /\ Len(chain.calls) < MaxMsgs
    /\ chain' = [chain EXCEPT
                   !.res = ExtLogMsg(@, error),
                   !.calls = Append(@, [op |-> "log_msg", text |-> error])]
    /\ UNCHANGED <<chapters, picks, reqs, started, writer, log, seen, batch, result,
                   added, board, contents, page, html>>

\* the handler returns the Err and axum turns it into the response
ReturnErr ==
    /\ chain.stage = "built"
    /\ ~chain.res.ok
    /\ chain' = [chain EXCEPT !.stage = "sent", !.sent = IntoResponse(chain.res.err)]
    /\ UNCHANGED <<chapters, picks, reqs, started, writer, log, seen, batch, result,
                   added, board, contents, page, html>>

InitCtx ==
    /\ chapters = [c \in ChapterIds |-> [is_open |-> TRUE, is_visible |-> TRUE]]
    /\ picks = {}
    /\ reqs = [s \in Slots |-> Idle]
    /\ started = 0
    /\ writer = <<>>
    /\ log = <<>>
    /\ seen = NothingSeen
    /\ batch = <<>>
    /\ result = NoResult
    /\ added = {}
    /\ board = <<>>
    /\ contents = NoAnswers
    /\ page = NoPage
    /\ chain = NoChain
    /\ html = <<>>

NextCtx ==
    \/ \E src \in CtxSources, status_code \in CtxStatuses : CallCtx(src, status_code)
    \/ \E message \in UserTexts : CallUserMsg(message)
    \/ \E error \in LogTexts : CallLogMsg(error)
    \/ ReturnErr

SpecCtx == InitCtx /\ [][NextCtx]_vars

\* ------------------------------------------------------------------------
\* Every role asks for the page of a chapter or submits to it, while the
\* admin opens, closes, shows and hides the chapters
\* ------------------------------------------------------------------------
AccessBodies == {BodyHome, JsonRejection}

NextAccess ==
    \/ \E u \in UserIds, c \in ChapterIds : GetHome("a", u, c)
    \/ \E u \in UserIds, c \in ChapterIds, body \in AccessBodies : Route("a", u, c, body)
    \/ \E db \in DbOutcomes : Lookup("a", db)
    \/ \E db \in DbOutcomes : Write("a", db)
    \/ Retire("a")
    \/ \E c \in ChapterIds, b \in BOOLEAN : AdminOpen(c, b)
    \/ \E c \in ChapterIds, b \in BOOLEAN : AdminVisible(c, b)

SpecAccess == Init /\ [][NextAccess]_vars

\* ------------------------------------------------------------------------
\* Properties of the validator
\* ------------------------------------------------------------------------
\* the point texts all parse and every value of 1..N occurs exactly once,
\* which is: the sorted wagers are <<1, 2, ..., N>>
IsPermutation(spreads) ==
    LET n == Len(spreads)
        amount == [i \in 1..n |-> ParseI32(spreads[i].num_points)]
    IN  /\ \A i \in 1..n : amount[i].ok
        /\ \A w \in 1..n : Cardinality({i \in 1..n : amount[i].val = w}) = 1

AllEventsKnown(events) ==
    \A i \in 1..Len(events) :
        LET id == ParseI32(events[i].event_id)
        IN  id.ok /\ id.val \in EventIds

\* C1: when the event ids of a batch all parse and are known (and the events
\* query answered), validate_picks accepts the batch if and only if the point
\* texts of each spread-group entry parse to a permutation of 1..N, N the
\* number of its sub-picks, N = 0 included; and each spread-group entry on its
\* own passes its part of validate_picks under exactly that condition.
PermutationIffAccepted ==
    /\ \A i \in 1..Len(batch) :
          batch[i].type = "spread-group" =>
             (ValidateSpreadGroup(batch[i]).ok <=> IsPermutation(batch[i].spreads))
    /\ (result.db = "ok" /\ AllEventsKnown(batch)) =>
          (result.v.ok <=>
              \A i \in 1..Len(batch) :
                  batch[i].type = "spread-group" => IsPermutation(batch[i].spreads))

\* a batch of known events with a three-way permutation written with a sign
\* and a leading zero has been accepted
PermutationAccepted ==
    /\ result.db = "ok"
    /\ result.v.ok
    /\ AllEventsKnown(batch)
    /\ \E i \in 1..Len(batch) :
          /\ batch[i].type = "spread-group"
          /\ Len(batch[i].spreads) = 3
          /\ batch[i].spreads[1].num_points = <<"3">>
          /\ batch[i].spreads[2].num_points = <<"+", "2">>
          /\ batch[i].spreads[3].num_points = <<"0", "1">>

\* ------------------------------------------------------------------------
\* Properties of the submission pipeline
\* ------------------------------------------------------------------------
\* the wagers of a stored pick as a list of integers
WagerList(r) == [i \in 1..Len(r.wager.arr) |-> r.wager.arr[i].num]

\* C2: every stored pick of a spread-group event has as many choices and
\* wagers as the event has spreads, and its wagers are a permutation of 1..N,
\* N the number of spreads of the event.
StoredWagersMatchEvent ==
    \A r \in picks :
        (r.event_id \in EventIds /\ EventTable[r.event_id].kind = "spread-group") =>
            LET n == EventTable[r.event_id].spreads
            IN  /\ r.wager.kind = "array"
                /\ r.choice.kind = "array"
                /\ Len(r.wager.arr) = n
                /\ Len(r.choice.arr) = n
                /\ \A w \in 1..n :
                      Cardinality({i \in 1..Len(r.wager.arr) : WagerList(r)[i] = w}) = 1

\* some validation step fails on the batch: a spread-group entry whose points
\* are no permutation, an event id that is no integer or names no event
BatchInvalid(events) ==
    \/ \E i \in 1..Len(events) :
          events[i].type = "spread-group" /\ ~IsPermutation(events[i].spreads)
    \/ ~AllEventsKnown(events)

\* the step is one of the request in slot s, the handler having been entered
StepOf(s) ==
    /\ reqs'[s].pc # reqs[s].pc
    /\ reqs'[s].pc # "idle"
    /\ reqs'[s].body.json
    /\ "submit" \in reqs'[s].reached

\* C3: no step of a request whose batch fails a validation step changes the
\* pick store; such a request never gets to its write, and when it is
\* answered, it is answered with an error.
RejectedBatchWritesNothing ==
    [][\A s \in Slots :
          (StepOf(s) /\ BatchInvalid(reqs'[s].body.events)) =>
             /\ picks' = picks
             /\ reqs'[s].pc \in {"lookup", "done"}
             /\ "write" \notin reqs'[s].reached
             /\ reqs'[s].pc = "done" => reqs'[s].resp.status \in {BAD_REQUEST, INTERNAL_SERVER_ERROR}
      ]_vars

\* a batch with a valid first entry has been rejected as a client error while
\* the store holds rows
RejectedWithRowsStored ==
    \E s \in Slots :
        /\ reqs[s].pc = "done"
        /\ reqs[s].body.json
        /\ "validate" \in reqs[s].reached
        /\ BatchInvalid(reqs[s].body.events)
        /\ Len(reqs[s].body.events) = 2
        /\ ValidateEntry(reqs[s].body.events[1]).ok
        /\ reqs[s].resp.status = BAD_REQUEST
        /\ picks # {}

HasUnknownEvent(events) ==
    \E i \in 1..Len(events) :
        LET id == ParseI32(events[i].event_id)
        IN  id.ok /\ id.val \notin EventIds

\* C4: a request whose batch names an event that is not in the events table
\* writes no row, whatever its other entries are, and is answered 400; the one
\* other answer is the 500 of an events query that itself failed.
UnknownEventRejectsBatch ==
    [][\A s \in Slots :
          (StepOf(s) /\ HasUnknownEvent(reqs'[s].body.events)) =>
             /\ picks' = picks
             /\ reqs'[s].pc \in {"lookup", "done"}
             /\ reqs'[s].pc = "done" =>
                   \/ reqs'[s].resp.status = BAD_REQUEST
                   \/ /\ reqs'[s].resp.status = INTERNAL_SERVER_ERROR
                      /\ reqs[s].pc = "lookup"
                      /\ reqs'[s].v.status = INTERNAL_SERVER_ERROR
      ]_vars

\* a batch of a valid entry and an entry for an unknown event went through
\* the events query and was answered "Event not found"
UnknownEventFound ==
    \E s \in Slots :
        /\ reqs[s].pc = "done"
        /\ reqs[s].body.json
        /\ HasUnknownEvent(reqs[s].body.events)
        /\ ValidateEntry(reqs[s].body.events[1]).ok
        /\ ~HasUnknownEvent(<<reqs[s].body.events[1]>>)
        /\ "lookup" \in reqs[s].reached
        /\ reqs[s].resp.status = BAD_REQUEST
        /\ reqs[s].resp.msg.text = "Event not found"

\* the request has been answered and its chapter, as loaded, was closed
AnsweredClosed(r) ==
    /\ r.pc = "done"
    /\ r.chapter.chapter_id \in ChapterIds
    /\ ~r.chapter.is_open

\* C5 as stated: every POST to a closed chapter is answered 423 "This chapter
\* is closed" and enters neither parsing, validation nor the write.
ClosedAlwaysLocked ==
    \A s \in Slots :
        AnsweredClosed(reqs[s]) =>
            /\ reqs[s].resp.status = LOCKED
            /\ reqs[s].resp.msg.text = "This chapter is closed"
            /\ reqs[s].reached = {}

\* C5, amended: a POST to a closed chapter enters neither parsing, validation
\* nor the write, whatever its payload; it is answered 423 "This chapter is
\* closed" when its user passes the access check of the chapter, and 401 by
\* that check otherwise.
ClosedLockedAfterAccess ==
    \A s \in Slots :
        AnsweredClosed(reqs[s]) =>
            /\ reqs[s].reached = {}
            /\ IF ConfirmUserAccess(BookRoleOf[reqs[s].user_id], reqs[s].chapter)
               THEN /\ reqs[s].resp.status = LOCKED
                    /\ reqs[s].resp.msg.text = "This chapter is closed"
               ELSE reqs[s].resp.status = UNAUTHORIZED

\* a valid batch sent to a closed chapter has been answered 423
ValidBatchLocked ==
    \E s \in Slots :
        /\ AnsweredClosed(reqs[s])
        /\ reqs[s].body = BodyHome
        /\ reqs[s].resp.status = LOCKED

\* ------------------------------------------------------------------------
\* Properties of the pick store
\* ------------------------------------------------------------------------
\* what commit n proposed for key k
ProposalOf(n, k) == CHOOSE q \in log[n] : Key(q) = k

\* every row of the batch is among the rows, holding what commit n or a
\* later commit proposed for it
Visible(rows, w, n, batchRows) ==
    \A p \in batchRows :
        \E r \in rows :
            /\ Key(r) = Key(p)
            /\ Key(p) \in DOMAIN w
            /\ w[Key(p)] >= n
            /\ r.choice = ProposalOf(w[Key(p)], Key(p)).choice
            /\ r.wager = ProposalOf(w[Key(p)], Key(p)).wager

\* the slot's request has just had its statement executed successfully
Committed(s) ==
    /\ reqs[s].pc = "write"
    /\ reqs'[s].pc = "done"
    /\ reqs'[s].resp.status = OK

\* C6: a committed batch is in the store with all its rows (each as proposed,
\* or as a later commit left it), and what a reader got holds, of every batch
\* of the user and chapter it asked for, all rows if the batch was committed
\* before the read and no row if it was committed after.
BatchesLandWhole ==
    /\ \A n \in 1..Len(log) : Visible(picks, writer, n, log[n])
    /\ \A n \in 1..seen.commits :
          Visible(seen.rows, seen.writer, n,
                  {p \in log[n] : p.user_id = seen.user_id /\ p.chapter_id = seen.chapter_id})
    /\ \A r \in seen.rows : seen.writer[Key(r)] <= seen.commits

\* a reader got both rows of the user's latest batch while another
\* submission of the same user waits to write
ReadBetweenWrites ==
    /\ seen.user_id = 1
    /\ seen.commits >= 2
    /\ Cardinality(seen.rows) = 2
    /\ \A r \in seen.rows : seen.writer[Key(r)] = seen.commits
    /\ \E s \in Slots : reqs[s].pc = "write" /\ reqs[s].user_id = 1

\* C7: every stored row holds the choice and the wager that one submission
\* proposed for it, and that submission is the last one committed for the row.
RowFromLastWriter ==
    \A r \in picks :
        /\ Key(r) \in DOMAIN writer
        /\ r.choice = ProposalOf(writer[Key(r)], Key(r)).choice
        /\ r.wager = ProposalOf(writer[Key(r)], Key(r)).wager

\* two submissions of one user with different choices and wagers were in
\* flight together and both committed
RacedBothCommitted ==
    \E s, t \in Slots :
        /\ reqs[s].pc = "done" /\ reqs[s].resp.status = OK /\ reqs[s].body = BodyHome
        /\ reqs[t].pc = "done" /\ reqs[t].resp.status = OK /\ reqs[t].body = BodyAway
        /\ reqs[s].user_id = reqs[t].user_id
        /\ reqs[s].raced \/ reqs[t].raced

UniqueKeys(rows) == \A r1, r2 \in rows : Key(r1) = Key(r2) => r1 = r2

\* C8: when a user's batch is committed right after a commit of the same
\* batch by the same user to the same chapter, the store is left as it was;
\* and the store never holds two rows of one key.
ResubmitChangesNothing ==
    [][/\ UniqueKeys(picks')
       /\ \A s \in Slots :
             (Committed(s) /\ log # <<>> /\ log[Len(log)] = Proposed(reqs[s])) =>
                picks' = picks
      ]_vars

\* a batch has been committed twice in a row
CommittedTwice ==
    \E s \in Slots :
        reqs[s].pc = "done" /\ reqs[s].resp.status = OK /\ reqs[s].repeat

\* C9: a committed batch leaves every row of another key as it was and adds
\* no row of another key; for each of its keys the store then holds one row
\* with the proposed choice and wager, and with the points the row had before
\* (none if the row is new).
UpsertFrame ==
    [][\A s \in Slots :
          Committed(s) =>
             LET keys == {Key(p) : p \in Proposed(reqs[s])}
             IN  /\ {o \in picks : Key(o) \notin keys} = {n \in picks' : Key(n) \notin keys}
                 /\ \A p \in Proposed(reqs[s]) :
                       \E n \in picks' :
                          /\ Key(n) = Key(p)
                          /\ \A m \in picks' : Key(m) = Key(p) => m = n
                          /\ n.choice = p.choice
                          /\ n.wager = p.wager
                          /\ \A o \in picks : Key(o) = Key(p) => n.points = o.points
                          /\ (\A o \in picks : Key(o) # Key(p)) => n.points = None
      ]_vars

\* a batch has replaced a graded row of its user while the store held a
\* row of the same user for an event outside the batch and rows of another user
GradedRowOverwritten ==
    \E s \in Slots :
        /\ reqs[s].pc = "done" /\ reqs[s].resp.status = OK /\ reqs[s].graded
        /\ \E r \in picks : r.user_id = reqs[s].user_id /\ r.points # None
        /\ \E r \in picks :
              /\ r.user_id = reqs[s].user_id
              /\ r.event_id \notin Range(reqs[s].v.event_ids)
        /\ \E r \in picks : r.user_id # reqs[s].user_id

\* ------------------------------------------------------------------------
\* Properties of the leaderboard
\* ------------------------------------------------------------------------
RanksOf(b) == [i \in 1..Len(b) |-> b[i].rank]

\* C10: the book leaderboard is ordered by total points descending, and the
\* rank of a row is 1 plus the number of rows with a strictly greater total:
\* equal totals share a rank and the ranks after a tie skip
BoardOrderedAndRanked ==
    /\ \A i \in 1..(Len(board) - 1) : board[i].total_points >= board[i + 1].total_points
    /\ \A i \in 1..Len(board) :
          board[i].rank =
              1 + Cardinality({j \in 1..Len(board) :
                                  board[j].total_points > board[i].total_points})

\* two rows tie for first, the next two are third and fourth
TieThenSkip == RanksOf(board) = <<1, 1, 3, 4>>

\* the sum of the points of a set of rows, a NULL counting 0
RECURSIVE TotalOf(_)
TotalOf(rows) ==
    IF rows = {} THEN 0
    ELSE LET r == CHOOSE x \in rows : TRUE
         IN  (IF r.points = None THEN 0 ELSE r.points[1]) + TotalOf(rows \ {r})

GuestIds == {u \in UserIds : BookRoleOf[u].kind = "guest"}

\* the users a leaderboard row stands for
MembersOf(row) == IF row.user_id = -1 THEN GuestIds ELSE {row.user_id}

EarnedBy(who) == TotalOf({r \in picks : r.book_id = BoardBook /\ r.user_id \in who})

AddedTo(who) == TotalOf({r \in added : r.book_id = BoardBook /\ r.user_id \in who})

\* C12: every row of the book leaderboard, the Guests row included, has
\* total_points = earned_points + added_points, earned_points being the sum
\* of the pick points of its users in the book and added_points the sum of
\* their adjustments in the book, 0 when there is none
BoardTotalsAddUp ==
    \A i \in 1..Len(board) :
        /\ board[i].earned_points = EarnedBy(MembersOf(board[i]))
        /\ board[i].added_points = AddedTo(MembersOf(board[i]))
        /\ board[i].total_points = board[i].earned_points + board[i].added_points

\* the Guests row sums picks and an adjustment, next to a member with
\* earned points and one with nothing at all
GuestsRowSummed ==
    /\ \E i \in 1..Len(board) :
          /\ board[i].user_id = -1
          /\ board[i].earned_points > 1
          /\ board[i].added_points # 0
    /\ \E i \in 1..Len(board) : board[i].user_id # -1 /\ board[i].earned_points > 0
    /\ \E i \in 1..Len(board) : board[i].user_id # -1 /\ board[i].total_points = 0

\* C13: the book leaderboard has at most one Guests row; it is there iff
\* the earned plus added points of all guest subscribers are positive; no
\* guest has a row of its own
GuestsRowRule ==
    board # <<>> =>
        /\ Cardinality({i \in 1..Len(board) : board[i].user_id = -1}) <= 1
        /\ (\E i \in 1..Len(board) : board[i].user_id = -1)
              <=> (EarnedBy(GuestIds) + AddedTo(GuestIds) > 0)
        /\ \A i \in 1..Len(board) : board[i].user_id \notin GuestIds

\* the guests earned points and an adjustment took them back: no Guests row
GuestsCancelledOut ==
    /\ board # <<>>
    /\ EarnedBy(GuestIds) > 0
    /\ EarnedBy(GuestIds) + AddedTo(GuestIds) = 0
    /\ \A i \in 1..Len(board) : board[i].user_id # -1

\* ------------------------------------------------------------------------
\* Properties of the closed chapter page
\* ------------------------------------------------------------------------
\* C11: in the chapter leaderboard users with equal total_points have the
\* same rank, and a user's rank is 1 plus the number of users with a
\* strictly greater total_points
ChapterRanksShared ==
    \A i \in 1..Len(page.users) :
        page.users[i].rank =
            1 + Cardinality({j \in 1..Len(page.users) :
                                page.users[j].total_points > page.users[i].total_points})

ShownEvents == GetEvents(contents, Shown)

ShownPicks == GetChapterPicks(picks, Shown)

\* the spreads of the shown events whose answer is not push or unpicked
CountedSpreads ==
    {x \in (1..Len(ShownEvents)) \X (1..MaxSpreads) :
        /\ ShownEvents[x[1]].kind = "spread-group"
        /\ x[2] <= Len(ShownEvents[x[1]].spreads)
        /\ ShownEvents[x[1]].spreads[x[2]] \notin {Some("push"), Some("unpicked")}}

InputEvents == {k \in 1..Len(ShownEvents) : ShownEvents[k].kind = "user-input"}

\* C14: a spread whose answer is push or unpicked adds nothing to the
\* numerator and nothing to the denominator of a user's correct/total
\* count, whatever side the user chose: the count of a user who picked is
\* within the spreads with another answer plus the user-input events
NeutralSpreadsNotCounted ==
    page.status = "ok" =>
        \A i \in 1..Len(page.users) :
            (\A k \in 1..Len(ShownEvents) :
                ShownEvents[k].kind = "spread-group"
                => IsSpreadGroupPick(PickFor(ShownPicks, ShownEvents[k].id,
                                             page.users[i].user_id)))
            => /\ page.scores[i].correct
                    <= Cardinality(CountedSpreads) + Cardinality(InputEvents)
               /\ page.scores[i].total
                    <= Cardinality(CountedSpreads) + Cardinality(InputEvents)

\* the wager a user wins on spread index of an event: the wager on it when
\* the answer is home or away and the user chose that side
WonBy(user_id, event, index) ==
    LET pick == PickFor(ShownPicks, event.id, user_id)
    IN  IF /\ pick # None
           /\ pick[1].type = "spread-group"
           /\ event.spreads[index] \in {Some("home"), Some("away")}
           /\ event.spreads[index] = Some(pick[1].choice[index])
        THEN pick[1].wager[index]
        ELSE 0

RECURSIVE SumWon(_, _, _)
SumWon(user_ids, event, index) ==
    IF user_ids = {} THEN 0
    ELSE LET u == CHOOSE x \in user_ids : TRUE
         IN  WonBy(u, event, index) + SumWon(user_ids \ {u}, event, index)

EventById(id) == CHOOSE e \in Range(ShownEvents) : e.id = id

\* C15: on each spread a user is awarded the wager when the answer is home
\* or away and equals the chosen side, and 0 otherwise (wrong side, push,
\* unpicked, no answer yet); the tile's Awarded is the sum over the users
AwardedIsSumOfWon ==
    page.status = "ok" =>
        \A t \in page.tiles :
            t.awarded = SumWon({page.users[i].user_id : i \in 1..Len(page.users)},
                               EventById(t.event_id), t.index)

\* on one page: a spread where one user won a wager and another lost one,
\* and a push spread with wagers on it
WonLostAndPush ==
    /\ page.status = "ok"
    /\ \E t \in page.tiles : t.awarded > 0 /\ t.awarded < t.wagered
    /\ \E t \in page.tiles :
          /\ EventById(t.event_id).spreads[t.index] = Some("push")
          /\ t.wagered > 0

SpreadTotal ==
    Cardinality({x \in (1..Len(ShownEvents)) \X (1..MaxSpreads) :
                    /\ ShownEvents[x[1]].kind = "spread-group"
                    /\ x[2] <= Len(ShownEvents[x[1]].spreads)})

Unscored == {k \in InputEvents : ShownEvents[k].acceptable_answers = None}

\* C16: a user-input event without acceptable answers changes neither the
\* correct nor the total count of any user, with or without a pick: the
\* counts are within the spreads plus the user-input events that have
\* acceptable answers; with acceptable answers a pick is correct iff its
\* text is one of them
UnscoredInputNotCounted ==
    page.status = "ok" =>
        \A i \in 1..Len(page.users) :
            /\ page.scores[i].correct <= SpreadTotal + Cardinality(InputEvents \ Unscored)
            /\ page.scores[i].total <= SpreadTotal + Cardinality(InputEvents \ Unscored)

\* the events in the positions other than k
Without(events, k) ==
    [j \in 1..(Len(events) - 1) |-> IF j < k THEN events[j] ELSE events[j + 1]]

Scorable(event) ==
    event.kind = "spread-group" \/ event.acceptable_answers # None

Weight(event) == IF event.kind = "spread-group" THEN Len(event.spreads) ELSE 1

UsersWithout(users, i) ==
    [j \in 1..(Len(users) - 1) |-> IF j < i THEN users[j] ELSE users[j + 1]]

\* C17: a user with no pick for a scorable event has that event in the
\* denominator (N for N spreads, 1 for a user-input event) and gets nothing
\* for it in the numerator or in awarded points: the count is the count
\* over the other events plus 0/N, and the tiles of the event are the same
\* without the user
NoPickCountsInTotal ==
    page.status = "ok" =>
        \A i \in 1..Len(page.users), k \in 1..Len(ShownEvents) :
            (/\ Scorable(ShownEvents[k])
             /\ PickFor(ShownPicks, ShownEvents[k].id, page.users[i].user_id) = None)
            => /\ page.scores[i] =
                    AddCount(UserPoints(page.users[i], Without(ShownEvents, k), ShownPicks),
                             Count(0, Weight(ShownEvents[k])))
               /\ \A t \in page.tiles :
                     t.event_id = ShownEvents[k].id
                     => t = SpreadTile(t.index, ShownEvents[k],
                                       UsersWithout(page.users, i), ShownPicks)

\* a user without any pick next to one who won a wager, on a page where
\* the user-input event has acceptable answers
NoPickNextToWinner ==
    /\ page.status = "ok"
    /\ \A k \in 1..Len(ShownEvents) : Scorable(ShownEvents[k])
    /\ \E i \in 1..Len(page.users) :
          /\ \A r \in ShownPicks : r.user_id # page.users[i].user_id
          /\ page.scores[i] = Count(0, SpreadTotal + Cardinality(InputEvents))
    /\ \E i \in 1..Len(page.users) : page.scores[i].correct > 1
    /\ \E t \in page.tiles : t.awarded > 0

\* the stored spread-group picks of the shown users whose choice or wager
\* list is not as long as the event's list of spreads
Mismatched ==
    {r \in ShownPicks :
        /\ EventTable[r.event_id].kind = "spread-group"
        /\ r.choice.kind = "array"
        /\ r.user_id \in ChapterSubscribers(ChapterBook[Shown], Shown)
        /\ \/ Len(r.choice.arr) # EventTable[r.event_id].spreads
           \/ Len(r.wager.arr) # EventTable[r.event_id].spreads}

\* C18: a stored spread-group pick whose choice or wager list differs in
\* length from the event's spreads is reported as an error in that user's
\* row only, and the page with the leaderboard and the results of the
\* other users is still completed
MismatchReportedInRow ==
    (page.status # "none" /\ Mismatched # {}) =>
        /\ page.status = "ok"
        /\ \A r \in Mismatched :
              \E c \in page.table :
                  c.user_id = r.user_id /\ c.event_id = r.event_id /\ c.kind = "error"

\* ------------------------------------------------------------------------
\* Properties of the validator's error messages
\* ------------------------------------------------------------------------
\* the spread-group entries of the batch
GroupEntries == {i \in 1..Len(batch) : batch[i].type = "spread-group"}

\* the parse of the j-th point text of an entry
AmountOf(entry, j) == ParseI32(entry.spreads[j].num_points)

\* the j-th point text parses to an integer outside [1, N]
OutOfRange(entry, j) ==
    /\ AmountOf(entry, j).ok
    /\ AmountOf(entry, j).val \notin 1..Len(entry.spreads)

\* the text is a decimal numeral of v: no sign, no leading zero
Numeral(t, v) ==
    /\ t # <<>>
    /\ t[1] \notin {"+", "-"}
    /\ (Len(t) > 1 => t[1] # "0")
    /\ ParseI32(t).ok
    /\ ParseI32(t).val = v

\* the outcome is the client error with the range message bounded 1-n
RangeErrorFor(out, n) ==
    /\ ~out.ok
    /\ out.status = BAD_REQUEST
    /\ out.msg.text = "Points must be in range"
    /\ Numeral(out.msg.a, 1)
    /\ Numeral(out.msg.b, n)

\* the batch has been validated and its outcome is that of the entry
AnsweredAs(out) ==
    result.db # "none" =>
        /\ ~result.v.ok
        /\ result.v.status = out.status
        /\ result.v.msg = out.msg

\* C19 as stated: a spread-group entry with N sub-picks holding a point value
\* that parses to an integer outside [1, N] is rejected with the client error
\* whose message gives the bound 1-N, the usage counter never indexed with it.
OutOfRangeNamesBound ==
    \A i \in GroupEntries :
        (\E j \in 1..Len(batch[i].spreads) : OutOfRange(batch[i], j)) =>
            /\ RangeErrorFor(ValidateSpreadGroup(batch[i]), Len(batch[i].spreads))
            /\ AnsweredAs(ValidateSpreadGroup(batch[i]))

\* C19: a spread-group entry with N sub-picks holding a point value that
\* parses to an integer outside [1, N], no sub-pick before it failing to
\* parse, is rejected with the client error whose message gives the bound
\* 1-N; the outcome is never the panic of an index outside the usage counter.
OutOfRangeAfterParsedNamesBound ==
    \A i \in GroupEntries :
        (\E j \in 1..Len(batch[i].spreads) :
            /\ OutOfRange(batch[i], j)
            /\ \A k \in 1..(j - 1) : AmountOf(batch[i], k).ok) =>
            /\ RangeErrorFor(ValidateSpreadGroup(batch[i]), Len(batch[i].spreads))
            /\ ValidateSpreadGroup(batch[i]) # Panicked
            /\ AnsweredAs(ValidateSpreadGroup(batch[i]))

\* the points 1, 2, 4 in an entry of three sub-picks have been answered with
\* the range error bounded 1-3
FourOfThreeRejected ==
    /\ result.db # "none"
    /\ result.v.status = BAD_REQUEST
    /\ result.v.msg = Msg("Points must be in range", <<"1">>, <<"3">>)
    /\ \E i \in GroupEntries :
          /\ Len(batch[i].spreads) = 3
          /\ batch[i].spreads[1].num_points = <<"1">>
          /\ batch[i].spreads[2].num_points = <<"2">>
          /\ batch[i].spreads[3].num_points = <<"4">>

\* the items of a text between its commas
RECURSIVE SplitComma(_)
SplitComma(t) ==
    IF \A k \in 1..Len(t) : t[k] # ","
    THEN <<t>>
    ELSE LET k == CHOOSE c \in 1..Len(t) :
                     t[c] = "," /\ \A b \in 1..(c - 1) : t[b] # ","
         IN  <<SubSeq(t, 1, k - 1)>> \o SplitComma(SubSeq(t, k + 1, Len(t)))

\* the text is the comma-joined list of the values of the set, ascending
ListsAscending(t, values) ==
    LET items == SplitComma(t)
    IN  /\ Len(items) = Cardinality(values)
        /\ \A k \in 1..Len(items) :
              \E v \in values : Numeral(items[k], v)
        /\ \A k \in 1..(Len(items) - 1) :
              ParseI32(items[k]).val < ParseI32(items[k + 1]).val

\* how many sub-picks of the entry carry the value v
TimesUsed(entry, v) ==
    Cardinality({j \in 1..Len(entry.spreads) : AmountOf(entry, j).val = v})

\* all point values are in [1, N] and some value is used twice
InRangeNoPermutation(entry) ==
    /\ \A j \in 1..Len(entry.spreads) :
          AmountOf(entry, j).ok /\ ~OutOfRange(entry, j)
    /\ \E v \in 1..Len(entry.spreads) : TimesUsed(entry, v) # 1

\* the outcome is the client error listing the values used more than once
\* and the values never used
DoubleUsedErrorFor(out, entry) ==
    /\ ~out.ok
    /\ out.status = BAD_REQUEST
    /\ out.msg.text = "Points Used Multiple Times / Point(s) available"
    /\ ListsAscending(out.msg.a,
                      {v \in 1..Len(entry.spreads) : TimesUsed(entry, v) > 1})
    /\ ListsAscending(out.msg.b,
                      {v \in 1..Len(entry.spreads) : TimesUsed(entry, v) = 0})

\* C20: a spread-group entry whose N point values are all in [1, N] without
\* being a permutation is rejected with a message that lists exactly the
\* values used more than once and exactly the values of [1, N] never used,
\* each list ascending and comma-joined.
DoubleUsedAndUnusedListed ==
    \A i \in GroupEntries :
        InRangeNoPermutation(batch[i]) =>
            /\ DoubleUsedErrorFor(ValidateSpreadGroup(batch[i]), batch[i])
            /\ AnsweredAs(ValidateSpreadGroup(batch[i]))

\* the points 1, 1, 2 have been answered with duplicate 1 and missing 3, or
\* the points 1, 1, 1 with duplicate 1 and missing 2,3
OneTwiceThreeMissing ==
    /\ result.db # "none"
    /\ result.v.status = BAD_REQUEST
    /\ \E i \in GroupEntries :
          /\ Len(batch[i].spreads) = 3
          /\ batch[i].spreads[1].num_points = <<"1">>
          /\ batch[i].spreads[2].num_points = <<"1">>
          /\ \/ /\ batch[i].spreads[3].num_points = <<"2">>
                /\ result.v.msg.a = <<"1">>
                /\ result.v.msg.b = <<"3">>
             \/ /\ batch[i].spreads[3].num_points = <<"1">>
                /\ result.v.msg.a = <<"1">>
                /\ result.v.msg.b = <<"2", ",", "3">>

\* the first sub-pick of the entry that fails is one whose point text is no
\* integer
FirstFailureIsParse(entry) ==
    \E j \in 1..Len(entry.spreads) :
        /\ ~AmountOf(entry, j).ok
        /\ \A k \in 1..(j - 1) : AmountOf(entry, k).ok /\ ~OutOfRange(entry, k)

\* the message names the event: one of its variable parts is the event id
\* of the entry
NamesEvent(msg, entry) == msg.a = entry.event_id \/ msg.b = entry.event_id

\* C21: a spread-group entry with a point text that is no integer is rejected
\* with the client error 400 whose parse message names the event of the entry.
ParseErrorNamesEvent ==
    \A i \in GroupEntries :
        FirstFailureIsParse(batch[i]) =>
            /\ ~ValidateSpreadGroup(batch[i]).ok
            /\ ValidateSpreadGroup(batch[i]).status = BAD_REQUEST
            /\ ValidateSpreadGroup(batch[i]).msg.text = "Could not parse Spread Group Points"
            /\ NamesEvent(ValidateSpreadGroup(batch[i]).msg, batch[i])

\* ------------------------------------------------------------------------
\* Properties of the responses of submit
\* ------------------------------------------------------------------------
MalformedText == "Can't Process Picks. Are they all the way filled out?"

\* the handler was entered with a body the Json extractor rejected
Malformed(req) == "submit" \in req.reached /\ ~req.body.json

\* C22: a request whose body does not parse into the submission shape is
\* answered by the handler with a 400 whose text no other answer carries;
\* no validation of an entry, no events query and no write has run for it,
\* and the step that answers it leaves the pick store as it was.
MalformedAnsweredFirst ==
    /\ [](\A s \in Slots :
            /\ Malformed(reqs[s]) =>
                  /\ reqs[s].pc = "done"
                  /\ reqs[s].resp.status = BAD_REQUEST
                  /\ reqs[s].resp.msg.text = MalformedText
                  /\ reqs[s].resp.alert = MalformedText
                  /\ reqs[s].reached \cap {"validate", "lookup", "write"} = {}
                  /\ reqs[s].v = NotRun
            /\ (reqs[s].body.json /\ reqs[s].pc = "done") =>
                  reqs[s].resp.msg.text # MalformedText)
    /\ [][\A s \in Slots :
            (reqs[s].pc = "idle" /\ Malformed(reqs'[s])) => picks' = picks]_vars

\* a malformed body has been answered while picks of an earlier request are
\* in the store
MalformedAfterStored ==
    /\ picks # {}
    /\ \E s \in Slots :
          /\ Malformed(reqs[s])
          /\ reqs[s].resp.status = BAD_REQUEST
          /\ reqs[s].resp.alert = MalformedText

GenericText == "Our Fault! Please Try Again."

\* C23: when the write of a validated submission fails, the request ends at
\* once with a 5xx whose alert is the fixed text and not the text holding the
\* storage error, the pick store is as before the statement, and the ended
\* request takes no further step but leaving its connection.
WriteFailureNotified ==
    [][\A s \in Slots :
          /\ (reqs[s].pc = "write" /\ reqs'[s].pc # "write"
                  /\ reqs'[s].resp.status # OK) =>
                /\ reqs'[s].pc = "done"
                /\ reqs'[s].resp.status \in 500..599
                /\ reqs'[s].resp.alert = GenericText
                /\ reqs'[s].resp.alert # reqs'[s].resp.msg.text
                /\ picks' = picks
          /\ (reqs[s].pc = "done" /\ reqs'[s] # reqs[s]) => reqs'[s] = Idle]_vars

\* the write of a valid batch of two rows has failed and nothing is stored
WriteFailedNothingStored ==
    /\ picks = {}
    /\ \E s \in Slots :
          /\ reqs[s].pc = "done"
          /\ "write" \in reqs[s].reached
          /\ Len(reqs[s].v.event_ids) = 2
          /\ reqs[s].resp.status = INTERNAL_SERVER_ERROR
          /\ reqs[s].resp.alert = GenericText

\* ------------------------------------------------------------------------
\* Properties of RespErr
\* ------------------------------------------------------------------------
\* the texts of the calls of one kind made on the chain, in call order
TextsOf(op) ==
    LET made == SelectSeq(chain.calls, LAMBDA c : c.op = op)
    IN  [i \in 1..Len(made) |-> made[i].text]

\* the log messages in the order they were added: the text of the error ctx
\* was called on, then those of the log_msg calls
LogsAdded ==
    (IF chain.src.type = "result" /\ ~chain.src.ok THEN <<chain.src.err>> ELSE <<>>)
        \o TextsOf("log_msg")

\* the user message: the one of the last user_msg call, or the status text
UserMessage ==
    IF TextsOf("user_msg") # <<>>
    THEN TextsOf("user_msg")[Len(TextsOf("user_msg"))]
    ELSE StatusText(chain.status)

\* the pieces from position from on are the log messages, one per line,
\* numbered from 0, the message added last first
LinesNumbered(text, from) ==
    /\ Len(text) = from - 1 + 4 * Len(LogsAdded)
    /\ \A ind \in 0..(Len(LogsAdded) - 1) :
          /\ text[from + 4 * ind] = "\n  "
          /\ Numeral(<<text[from + 4 * ind + 1]>>, ind)
          /\ text[from + 4 * ind + 2] = ": "
          /\ text[from + 4 * ind + 3] = LogsAdded[Len(LogsAdded) - ind]

\* the text is the user message followed by the numbered log messages
MessageThenLines(text) ==
    /\ text # <<>>
    /\ text[1] = UserMessage
    /\ LinesNumbered(text, 2)

\* C24 as stated: the display text of every RespErr is the user message (the
\* last one set, or the status code text) followed by the log messages, one
\* per line, numbered from 0 with the message added last first.
DisplayIsMessageThenLogs ==
    (chain.stage # "none" /\ ~chain.res.ok) => MessageThenLines(Display(chain.res.err))

\* the error holds a response of its own and no user message was set
HoldsResponse == chain.src.type = "response" /\ TextsOf("user_msg") = <<>>

\* C24: the display text of a RespErr that holds no custom response is the
\* user message (the last one set, or the status code text) followed by the
\* log messages, one per line, numbered from 0 with the message added last
\* first, the text of the error ctx was called on having the highest number;
\* for a RespErr holding a custom response the text is the log lines alone.
DisplayOfMessageKinds ==
    (chain.stage # "none" /\ ~chain.res.ok) =>
        IF HoldsResponse
        THEN LinesNumbered(Display(chain.res.err), 1)
        ELSE MessageThenLines(Display(chain.res.err))

\* Err("Ups!") with a user message and two log messages displays the user
\* message, then the log messages last first, the error's text as number 2
SorryWithThreeLines ==
    /\ chain.src.type = "result"
    /\ chain.calls = <<[op |-> "user_msg", text |-> "Sorry!"],
                       [op |-> "log_msg", text |-> "Bug!"],
                       [op |-> "log_msg", text |-> "Bugs everywhere!"]>>
    /\ Display(chain.res.err) =
          <<"Sorry!", "\n  ", "0", ": ", "Bugs everywhere!",
            "\n  ", "1", ": ", "Bug!", "\n  ", "2", ": ", "Ups!">>

\* C25: ctx on Ok(v) or Some(v) gives Ok(v) and stays Ok(v) through every
\* later user_msg and log_msg; the response of an error made by ctx carries
\* the status given to ctx, whatever messages or response the error holds.
CtxKeepsOkAndStatus ==
    /\ (chain.stage # "none" /\ chain.src.ok) => chain.res = RespOk(chain.src.val)
    /\ (chain.stage # "none" /\ ~chain.src.ok) =>
          /\ ~chain.res.ok
          /\ chain.res.err.status_code = chain.status
    /\ chain.stage = "sent" => chain.sent.status = chain.status

\* None turned into a 500 with a user message and a log message has been
\* answered with status 500 and the user message as body
NoneAnsweredWithStatus ==
    /\ chain.stage = "sent"
    /\ chain.src.type = "option"
    /\ chain.status = INTERNAL_SERVER_ERROR
    /\ \E i, j \in 1..Len(chain.calls) :
          chain.calls[i].op = "user_msg" /\ chain.calls[j].op = "log_msg"
    /\ chain.sent = HttpResponse(INTERNAL_SERVER_ERROR, UserMessage)

\* ------------------------------------------------------------------------
\* Properties of the gates and of the stored rows
\* ------------------------------------------------------------------------
RowsOf(store, c) == {r \in store : r.chapter_id = c}

\* C26: once a chapter's is_open flag is false no step creates or changes a
\* pick row of that chapter, however the submissions and the admin's close
\* interleave.
NoWriteAfterClose ==
    [][\A c \in ChapterIds :
          ~chapters[c].is_open => RowsOf(picks', c) = RowsOf(picks, c)]_vars

\* the row is of the kind of the event it names
KindMatches(r) ==
    (r.choice.kind = "array") <=> (EventTable[r.event_id].kind = "spread-group")

\* C27: every stored pick names an event of the chapter and book the row is
\* stored under, and is of the kind of that event.
StoredEventsBelong ==
    \A r \in picks :
        /\ r.event_id \in EventIds
        /\ EventTable[r.event_id].chapter_id = r.chapter_id
        /\ ChapterBook[r.chapter_id] = r.book_id
        /\ KindMatches(r)

\* C28: every choice of a stored spread-group pick is "home" or "away".
StoredChoicesAreSides ==
    \A r \in picks :
        r.choice.kind = "array" =>
            \A i \in 1..Len(r.choice.arr) : r.choice.arr[i].str \in {"home", "away"}

\* the role may see the chapter: owner or admin; participant of a visible
\* chapter; guest of a visible chapter that is in the guest's list
Permitted(role, chapter) ==
    \/ role.kind = "owner"
    \/ role.kind = "admin"
    \/ role.kind = "participant" /\ chapter.is_visible
    \/ role.kind = "guest" /\ chapter.is_visible
                           /\ chapter.chapter_id \in role.chapter_ids

\* C29: a request has reached the chapter page or the submit handler only if
\* its subscriber's role may see the chapter as it was loaded; every other
\* request for an existing chapter is answered 401 without the open gate or
\* a handler having run, whether the chapter is open or closed.
HandlersBehindAccess ==
    \A s \in Slots :
        /\ reqs[s].reached # {} =>
              Permitted(BookRoleOf[reqs[s].user_id], reqs[s].chapter)
        /\ (reqs[s].pc = "done" /\ reqs[s].chapter # NoChapter
                /\ ~Permitted(BookRoleOf[reqs[s].user_id], reqs[s].chapter)) =>
              /\ reqs[s].resp.status = UNAUTHORIZED
              /\ reqs[s].reached = {}
        /\ (reqs[s].pc = "done" /\ reqs[s].chapter # NoChapter
                /\ Permitted(BookRoleOf[reqs[s].user_id], reqs[s].chapter)) =>
              reqs[s].resp.status # UNAUTHORIZED

\* the guest of chapter 1 has been refused the visible and closed chapter 2
\* with 401, not 423
GuestRefusedBeforeGate ==
    \E s \in Slots :
        /\ reqs[s].pc = "done"
        /\ BookRoleOf[reqs[s].user_id].kind = "guest"
        /\ reqs[s].chapter.chapter_id \notin BookRoleOf[reqs[s].user_id].chapter_ids
        /\ reqs[s].chapter.is_visible
        /\ ~reqs[s].chapter.is_open
        /\ reqs[s].body.json
        /\ reqs[s].resp.status = UNAUTHORIZED
        /\ reqs[s].reached = {}

\* ------------------------------------------------------------------------
\* Properties of the rendered book leaderboard
\* ------------------------------------------------------------------------
\* the row at position i opens a group of rows of equal total
OpensTieGroup(rows, i) == i = 1 \/ rows[i - 1].total # rows[i].total

\* 1 + the number of rows of the table with a greater total
CompetitionRank(rows, i) ==
    1 + Cardinality({j \in 1..Len(rows) : rows[j].total > rows[i].total})

\* C30: in the rendered book leaderboard, of the rows of one total exactly
\* the first shows a rank number, which is the competition rank of the group,
\* and the rank cells of the other rows of the group are empty; there is one
\* row for every row of the rankings.
FirstOfTieShowsRank ==
    /\ Len(html) = Len(board)
    /\ \A i \in 1..Len(html) :
          /\ html[i].total = board[i].total_points
          /\ IF OpensTieGroup(html, i)
             THEN html[i].rank = Some(CompetitionRank(html, i))
             ELSE html[i].rank = None

\* a rendered table with two rows tied on top, the second without a number,
\* and the next row numbered 3
TieRenderedThenThird ==
    /\ Len(html) >= 3
    /\ html[1].total = html[2].total
    /\ html[1].rank = Some(1)
    /\ html[2].rank = None
    /\ html[3].rank = Some(3)

====
